---- MODULE Spec2Model ----
(***************************************************************************)
(* Verification model of terraform-provider-func: the type coercion engine *)
(* (tftypes/tfconvert), the type helpers (tftypes) and the JavaScript type *)
(* expression parser (internal/javascript/tfjs.go).                        *)
(*                                                                         *)
(* Types and values of the terraform-plugin-framework are records tagged   *)
(* by a field k.  The pointer/non-pointer distinction of attr.Type         *)
(* implementations is not modelled: the helpers of package tftypes exist   *)
(* to erase it.                                                            *)
(***************************************************************************)
EXTENDS Integers, Sequences, FiniteSets, TLC

VARIABLES val, typ, caller, out, tys, form, inner, res, depth,
          given, native, implied, back,
          script, meta, funcs, perr, fn, resp, pc,
          parsed, handed, fetch

convVars == <<val, typ, caller, out>>
parseVars == <<tys, form, inner, res, depth>>
bridgeVars == <<given, native, implied, back>>
regVars == <<script, meta, funcs, perr>>
callVars == <<fn, resp>>
restVars == <<parsed, handed, fetch>>
hostVars == <<script, meta, funcs, perr, fn, resp, pc, parsed, handed, fetch>>
vars == <<val, typ, caller, out, tys, form, inner, res, depth,
          given, native, implied, back,
          script, meta, funcs, perr, fn, resp, pc,
          parsed, handed, fetch>>

(***************************************************************************)
(* Bounds                                                                  *)
(***************************************************************************)
\* Largest number of elements of a list, set or tuple value, and largest
\* tuple arity, that the model enumerates.
MaxLen == 2
\* Largest number of composition steps applied to a type expression.
MaxDepth == 2
\* Largest number of statements of a script.
MaxStatements == 3
\* Number of requests the host sends at the same time.
MaxRequests == 2
\* Largest number of library paths of one configuration.
MaxPaths == 3
\* Largest number of libraries fetched one after another.
MaxFetches == 2

\* Attribute names and map keys that the model enumerates.
Names == {"a", "b"}
\* Names in ascending order, as the String() methods sort keys.
NameOrder == <<"a", "b">>

(***************************************************************************)
(* attr.Type                                                               *)
(***************************************************************************)
TBool == [k |-> "Bool"]
TNumber == [k |-> "Number"]
TString == [k |-> "String"]
TDynamic == [k |-> "Dynamic"]
\* The nil attr.Type that CollapseTypes returns for an empty slice.
TNil == [k |-> "Nil"]
ListT(e) == [k |-> "List", e |-> e]
SetT(e) == [k |-> "Set", e |-> e]
MapT(e) == [k |-> "Map", e |-> e]
TupleT(es) == [k |-> "Tuple", es |-> es]
ObjectT(ats) == [k |-> "Object", ats |-> ats]

\* attr.Type.Equal: structural equality of the whole type tree.
Equal(lhs, rhs) == lhs = rhs

Kinds == {"Bool", "Number", "String", "Tuple", "List", "Set", "Object", "Map"}

IsBoolType(ty) == ty.k = "Bool"
IsNumberType(ty) == ty.k = "Number"
IsStringType(ty) == ty.k = "String"
IsTupleType(ty) == ty.k = "Tuple"
IsListType(ty) == ty.k = "List"
IsSetType(ty) == ty.k = "Set"
IsObjectType(ty) == ty.k = "Object"
IsMapType(ty) == ty.k = "Map"

PlainTypeString(ty) ==
  IF IsBoolType(ty) THEN "Bool"
  ELSE IF IsNumberType(ty) THEN "Number"
  ELSE IF IsStringType(ty) THEN "String"
  ELSE IF IsTupleType(ty) THEN "Tuple"
  ELSE IF IsListType(ty) THEN "List"
  ELSE IF IsSetType(ty) THEN "Set"
  ELSE IF IsObjectType(ty) THEN "Object"
  ELSE IF IsMapType(ty) THEN "Map"
  ELSE "Dynamic"

\* TypeEqual compares the outermost kind only and has no case for Dynamic.
TypeEqual(lhs, rhs) ==
  \/ IsBoolType(lhs) /\ IsBoolType(rhs)
  \/ IsNumberType(lhs) /\ IsNumberType(rhs)
  \/ IsStringType(lhs) /\ IsStringType(rhs)
  \/ IsTupleType(lhs) /\ IsTupleType(rhs)
  \/ IsListType(lhs) /\ IsListType(rhs)
  \/ IsSetType(lhs) /\ IsSetType(rhs)
  \/ IsObjectType(lhs) /\ IsObjectType(rhs)
  \/ IsMapType(lhs) /\ IsMapType(rhs)

(***************************************************************************)
(* attr.Value                                                              *)
(***************************************************************************)
\* A number payload is the rational num/den (big.Float holds it exactly).
Num(n, d) == [num |-> n, den |-> d]
Null == [k |-> "Null"]
BoolV(b) == [k |-> "Bool", b |-> b]
NumberV(n) == [k |-> "Number", n |-> n]
StringV(s) == [k |-> "String", s |-> s]
DynamicV(v) == [k |-> "Dynamic", v |-> v]
ListV(e, els) == [k |-> "List", e |-> e, els |-> els]
SetV(e, els) == [k |-> "Set", e |-> e, els |-> els]
MapV(e, els) == [k |-> "Map", e |-> e, els |-> els]
TupleV(es, els) == [k |-> "Tuple", es |-> es, els |-> els]
ObjectV(ats, attrs) == [k |-> "Object", ats |-> ats, attrs |-> attrs]

\* attr.Value.Type
TypeOf(v) ==
  CASE v.k = "Bool" -> TBool
    [] v.k = "Number" -> TNumber
    [] v.k = "String" -> TString
    [] v.k = "Dynamic" -> TDynamic
    [] v.k = "List" -> ListT(v.e)
    [] v.k = "Set" -> SetT(v.e)
    [] v.k = "Map" -> MapT(v.e)
    [] v.k = "Tuple" -> TupleT(v.es)
    [] v.k = "Object" -> ObjectT(v.ats)

\* A known value of unknown content, as the New*Value constructors return
\* next to error diagnostics.
Unknown == [k |-> "Unknown"]

\* (value, error) pairs
Ok(v) == [ok |-> TRUE, v |-> v]
Err == [ok |-> FALSE, v |-> Null]
\* (value, diagnostics) pairs
Diag(v, hasError) == [v |-> v, hasError |-> hasError]

(***************************************************************************)
(* String() renderings of the framework values                             *)
(***************************************************************************)
IsInt(n) == n.num % n.den = 0

\* big.Float.String() of a non-negative payload with denominator 1 or 2
NumberText(n) ==
  IF IsInt(n) THEN ToString(n.num \div n.den)
  ELSE ToString(n.num \div n.den) \o ".5"

Quote(s) == "\"" \o s \o "\""

RECURSIVE JoinSeq(_, _)
JoinSeq(parts, sep) ==
  IF Len(parts) = 0 THEN ""
  ELSE IF Len(parts) = 1 THEN parts[1]
  ELSE parts[1] \o sep \o JoinSeq(Tail(parts), sep)

\* The keys of a map in ascending order
SortedKeys(f) == SelectSeq(NameOrder, LAMBDA n : n \in DOMAIN f)

RECURSIVE ValueString(_)
ValueString(v) ==
  CASE v.k = "Bool" -> IF v.b THEN "true" ELSE "false"
    [] v.k = "Number" -> NumberText(v.n)
    [] v.k = "String" -> Quote(v.s)
    [] v.k = "Null" -> "<null>"
    [] v.k = "Dynamic" -> ValueString(v.v)
    [] v.k \in {"List", "Set", "Tuple"} ->
         "[" \o JoinSeq([i \in DOMAIN v.els |-> ValueString(v.els[i])], ",") \o "]"
    [] v.k = "Map" ->
         LET ks == SortedKeys(v.els)
         IN "{" \o JoinSeq([i \in DOMAIN ks |->
                    Quote(ks[i]) \o ":" \o ValueString(v.els[ks[i]])], ",") \o "}"
    [] v.k = "Object" ->
         LET ks == SortedKeys(v.attrs)
         IN "{" \o JoinSeq([i \in DOMAIN ks |->
                    Quote(ks[i]) \o ":" \o ValueString(v.attrs[ks[i]])], ",") \o "}"

(***************************************************************************)
(* Constructors of the framework, with their element type validation       *)
(***************************************************************************)
NewListValue(elementType, elements) ==
  IF \E i \in DOMAIN elements : ~Equal(elementType, TypeOf(elements[i]))
  THEN Diag(Unknown, TRUE)
  ELSE Diag(ListV(elementType, elements), FALSE)

NewSetValue(elementType, elements) ==
  IF \E i \in DOMAIN elements : ~Equal(elementType, TypeOf(elements[i]))
  THEN Diag(Unknown, TRUE)
  ELSE Diag(SetV(elementType, elements), FALSE)

NewMapValue(elementType, elements) ==
  IF \E key \in DOMAIN elements : ~Equal(elementType, TypeOf(elements[key]))
  THEN Diag(Unknown, TRUE)
  ELSE Diag(MapV(elementType, elements), FALSE)

NewTupleValue(elementTypes, elements) ==
  IF \/ Len(elementTypes) # Len(elements)
     \/ \E i \in DOMAIN elements : ~Equal(elementTypes[i], TypeOf(elements[i]))
  THEN Diag(Unknown, TRUE)
  ELSE Diag(TupleV(elementTypes, elements), FALSE)

NewObjectValue(attributeTypes, attributes) ==
  IF \/ DOMAIN attributeTypes # DOMAIN attributes
     \/ \E key \in DOMAIN attributes :
          ~Equal(attributeTypes[key], TypeOf(attributes[key]))
  THEN Diag(Unknown, TRUE)
  ELSE Diag(ObjectV(attributeTypes, attributes), FALSE)

\* The diagnostics dropped and the value returned, as IgnoreDiagnostics does
DiagnosticsIgnored(p) == Ok(p.v)

\* DiagnosticsToError turns error diagnostics into an error.
DiagnosticsToError(p) == IF p.hasError THEN Err ELSE Ok(p.v)

\* CollapseTypes returns the first type when every later one is TypeEqual
\* to it, the nil type for an empty slice.
RECURSIVE CollapseFrom(_, _, _)
CollapseFrom(types, i, cty) ==
  IF i > Len(types) THEN [ok |-> TRUE, ty |-> cty]
  ELSE IF cty = TNil THEN CollapseFrom(types, i + 1, types[i])
  ELSE IF ~TypeEqual(types[i], cty) THEN [ok |-> FALSE, ty |-> TNil]
  ELSE CollapseFrom(types, i + 1, cty)

CollapseTypes(types) == CollapseFrom(types, 1, TNil)

(***************************************************************************)
(* tfconvert: one converter per source kind                                *)
(***************************************************************************)
\* big.Accuracy of a conversion that did not round
Exact == 0

\* big.Accuracy of a conversion that rounded down, and up
Below == 0 - 1
Above == 1

\* The mantissa of a float64 is scaled down: the float64 values are the
\* multiples of 1/2, and a big.Float payload can be finer than that.
\* NearestFloat64 is the float64 nearest to a non-negative payload.
NearestFloat64(n) ==
  LET halves == (4 * n.num + n.den) \div (2 * n.den)
  IN IF halves % 2 = 0 THEN Num(halves \div 2, 1) ELSE Num(halves, 2)

\* The accuracy big.Float.Float64 reports
Float64Accuracy(n) ==
  IF n.den \in {1, 2} THEN Exact
  ELSE IF NearestFloat64(n).num * n.den > n.num * NearestFloat64(n).den THEN Above
  ELSE Below

\* math.Abs(x) < math.Pow10(e) for the rational x and e in {-1, 0, 1}
AbsLessPow10(n, e) ==
  LET a == IF n.num < 0 THEN 0 - n.num ELSE n.num
  IN CASE e = 0 -> a < n.den
       [] e = 1 -> a < 10 * n.den
       [] e = 0 - 1 -> 10 * a < n.den

boolConverter(v, ty) ==
  CASE PlainTypeString(ty) = "Number" ->
         Ok(NumberV(IF v.b THEN Num(1, 1) ELSE Num(0, 1)))
    [] PlainTypeString(ty) = "String" ->
         Ok(StringV(IF v.b THEN "true" ELSE "false"))
    [] OTHER -> Err

numberConverter(v, ty) ==
  CASE PlainTypeString(ty) = "Bool" ->
         IF IsInt(v.n) THEN Ok(BoolV(v.n.num # 0))
         ELSE Ok(BoolV(AbsLessPow10(v.n, 0 - Float64Accuracy(v.n))))
    [] PlainTypeString(ty) = "String" -> Ok(StringV(NumberText(v.n)))
    [] OTHER -> Err

\* A string converter that also parses the text "true"/"false" into a Bool
stringConverterParsing(v, ty) ==
  CASE PlainTypeString(ty) = "String" -> Ok(StringV(ValueString(v)))
    [] PlainTypeString(ty) = "Bool" -> Ok(BoolV(v.s = "true"))
    [] OTHER -> Err

stringConverter(v, ty) ==
  CASE PlainTypeString(ty) = "String" -> Ok(StringV(ValueString(v)))
    [] OTHER -> Err

RECURSIVE Convert(_, _)

\* The elements of a sequence converted one by one to the same target
ConvertEach(els, target) == [i \in DOMAIN els |-> Convert(els[i], target)]

tupleConverter(v, ty) ==
  CASE PlainTypeString(ty) = "String" -> Ok(StringV(ValueString(v)))
    [] PlainTypeString(ty) = "List" ->
         LET c == CollapseTypes(v.es)
         IN IF ~c.ok THEN Err
            ELSE DiagnosticsToError(NewListValue(c.ty, v.els))
    [] PlainTypeString(ty) = "Tuple" ->
         LET target == ty.es
             current == v.es
             conv == [i \in DOMAIN current |->
                        IF Equal(current[i], target[i]) THEN Ok(v.els[i])
                        ELSE Convert(v.els[i], target[i])]
         IN IF Len(target) # Len(current) THEN Err
            ELSE IF \A i \in DOMAIN current : Equal(current[i], target[i])
            THEN Ok(v)
            ELSE IF \E i \in DOMAIN current : ~conv[i].ok THEN Err
            ELSE DiagnosticsToError(
                   NewTupleValue(target, [i \in DOMAIN current |-> conv[i].v]))
    [] PlainTypeString(ty) = "Set" ->
         LET c == CollapseTypes(v.es)
         IN IF ~c.ok THEN Err
            ELSE DiagnosticsToError(NewSetValue(c.ty, v.els))
    [] OTHER -> Err

listConverter(v, ty) ==
  CASE PlainTypeString(ty) = "String" -> Ok(StringV(ValueString(v)))
    [] PlainTypeString(ty) = "List" ->
         LET target == ty.e
             conv == ConvertEach(v.els, target)
         IN IF Equal(v.e, target) THEN Ok(v)
            ELSE IF \E i \in DOMAIN conv : ~conv[i].ok THEN Err
            ELSE DiagnosticsToError(
                   NewListValue(ty, [i \in DOMAIN conv |-> conv[i].v]))
    [] PlainTypeString(ty) = "Tuple" ->
         DiagnosticsToError(NewTupleValue([i \in DOMAIN v.els |-> v.e], v.els))
    [] OTHER -> Err

setConverter(v, ty) ==
  CASE PlainTypeString(ty) = "String" -> Ok(StringV(ValueString(v)))
    [] PlainTypeString(ty) = "List" ->
         DiagnosticsToError(NewListValue(v.e, v.els))
    [] PlainTypeString(ty) = "Tuple" ->
         DiagnosticsToError(NewTupleValue([i \in DOMAIN v.els |-> v.e], v.els))
    [] PlainTypeString(ty) = "Set" ->
         LET target == ty.e
             conv == ConvertEach(v.els, target)
         IN IF Equal(v.e, target) THEN Ok(v)
            ELSE IF \E i \in DOMAIN conv : ~conv[i].ok THEN Err
            ELSE DiagnosticsToError(
                   NewSetValue(ty, [i \in DOMAIN conv |-> conv[i].v]))
    [] OTHER -> Err

objectConverter(v, ty) ==
  CASE PlainTypeString(ty) = "String" -> Ok(StringV(ValueString(v)))
    [] PlainTypeString(ty) = "Object" ->
         LET target == ty.ats
             current == v.ats
             conv == [key \in DOMAIN current |->
                        IF Equal(current[key], target[key]) THEN Ok(v.attrs[key])
                        ELSE Convert(v.attrs[key], target[key])]
         IN IF Cardinality(DOMAIN target) # Cardinality(DOMAIN current) THEN Err
            ELSE IF \E key \in DOMAIN current : key \notin DOMAIN target THEN Err
            ELSE IF \A key \in DOMAIN current : Equal(current[key], target[key])
            THEN Ok(v)
            ELSE IF \E key \in DOMAIN current : ~conv[key].ok THEN Err
            ELSE DiagnosticsToError(
                   NewObjectValue(target, [key \in DOMAIN current |-> conv[key].v]))
    [] PlainTypeString(ty) = "Map" ->
         \* maps.Values yields the attribute types in no fixed order; whether
         \* CollapseTypes and NewMapValue succeed does not depend on it.
         LET ks == SortedKeys(v.ats)
             c == CollapseTypes([i \in DOMAIN ks |-> v.ats[ks[i]]])
         IN IF ~c.ok THEN Err
            ELSE DiagnosticsToError(NewMapValue(c.ty, v.attrs))
    [] OTHER -> Err

mapConverter(v, ty) ==
  CASE PlainTypeString(ty) = "String" -> Ok(StringV(ValueString(v)))
    [] PlainTypeString(ty) = "Object" ->
         DiagnosticsToError(
           NewObjectValue([key \in DOMAIN v.els |-> v.e], v.els))
    [] PlainTypeString(ty) = "Map" ->
         LET target == ty.e
             conv == [key \in DOMAIN v.els |-> Convert(v.els[key], target)]
         IN IF Equal(v.e, target) THEN Ok(v)
            ELSE IF \E key \in DOMAIN conv : ~conv[key].ok THEN Err
            ELSE DiagnosticsToError(
                   NewMapValue(ty, [key \in DOMAIN conv |-> conv[key].v]))
    [] OTHER -> Err

\* Convert tries to convert a value to a given type.
Convert(v, ty) ==
  LET vty == TypeOf(v)
  IN IF TypeEqual(vty, ty) THEN Ok(v)
     ELSE IF TypeEqual(TDynamic, ty) THEN Ok(DynamicV(v))
     ELSE CASE PlainTypeString(vty) = "Bool" -> boolConverter(v, ty)
            [] PlainTypeString(vty) = "Number" -> numberConverter(v, ty)
            [] PlainTypeString(vty) = "String" -> stringConverter(v, ty)
            [] PlainTypeString(vty) = "Tuple" -> tupleConverter(v, ty)
            [] PlainTypeString(vty) = "List" -> listConverter(v, ty)
            [] PlainTypeString(vty) = "Set" -> setConverter(v, ty)
            [] PlainTypeString(vty) = "Object" -> objectConverter(v, ty)
            [] PlainTypeString(vty) = "Map" -> mapConverter(v, ty)
            [] OTHER -> Err

(***************************************************************************)
(* Go strings, package strings and the regular expression of tfjs.go       *)
(***************************************************************************)
Char(s, i) == SubSeq(s, i, i)

\* \w of Go regular expressions
WordChars ==
  {"a", "b", "c", "d", "e", "f", "g", "h", "i", "j", "k", "l", "m",
   "n", "o", "p", "q", "r", "s", "t", "u", "v", "w", "x", "y", "z",
   "A", "B", "C", "D", "E", "F", "G", "H", "I", "J", "K", "L", "M",
   "N", "O", "P", "Q", "R", "S", "T", "U", "V", "W", "X", "Y", "Z",
   "0", "1", "2", "3", "4", "5", "6", "7", "8", "9", "_"}

\* \s of Go regular expressions; the white space TrimSpace removes
SpaceChars == {" ", "\t", "\n", "\r", "\f"}

\* [\w\[\]{}|]
TypeChars == WordChars \cup {"[", "]", "{", "}", "|"}

\* strings.Contains(s, c) for a one-character c
Contains(s, c) == \E i \in 1..Len(s) : Char(s, i) = c

HasPrefix(s, prefix) ==
  Len(s) >= Len(prefix) /\ SubSeq(s, 1, Len(prefix)) = prefix

HasSuffix(s, suffix) ==
  Len(s) >= Len(suffix) /\ SubSeq(s, Len(s) - Len(suffix) + 1, Len(s)) = suffix

\* strings.Split(s, c) for a one-character c: the pieces between the
\* occurrences of c, from position i on, the piece in progress starting at b
RECURSIVE SplitFrom(_, _, _, _)
SplitFrom(s, c, b, i) ==
  IF i > Len(s) THEN <<SubSeq(s, b, Len(s))>>
  ELSE IF Char(s, i) = c
  THEN <<SubSeq(s, b, i - 1)>> \o SplitFrom(s, c, i + 1, i + 1)
  ELSE SplitFrom(s, c, b, i + 1)

Split(s, c) == SplitFrom(s, c, 1, 1)

\* The first position from i on whose character is not in class, Len(s)+1
\* when there is none
RECURSIVE SkipIn(_, _, _)
SkipIn(s, i, class) ==
  IF i <= Len(s) /\ Char(s, i) \in class THEN SkipIn(s, i + 1, class) ELSE i

\* The first position from i on whose character is c, Len(s)+1 when none
RECURSIVE SkipTo(_, _, _)
SkipTo(s, i, c) ==
  IF i <= Len(s) /\ Char(s, i) # c THEN SkipTo(s, i + 1, c) ELSE i

\* The last position down from i whose character is not in class, 0 when none
RECURSIVE SkipBackIn(_, _, _)
SkipBackIn(s, i, class) ==
  IF i >= 1 /\ Char(s, i) \in class THEN SkipBackIn(s, i - 1, class) ELSE i

TrimSpace(s) ==
  LET b == SkipIn(s, 1, SpaceChars)
      e == SkipBackIn(s, Len(s), SpaceChars)
  IN IF b > e THEN "" ELSE SubSeq(s, b, e)

IsAt(s, i, c) == i <= Len(s) /\ Char(s, i) = c

NoMatch == [found |-> FALSE, end |-> 0, g1 |-> "", g2 |-> "", g3 |-> "", g4 |-> ""]

\* The rest of objectTypeRegExp after the member name or index signature,
\* `\s*:\s*({[^}]*}|[\w\[\]{}|]+)\s*;`, matched from position p.  Every
\* repetition is followed by a character outside its class, so only its
\* longest run can lead to a match; the braced alternative is tried first.
MatchMemberType(s, p, g1, g2, g3) ==
  LET colon == SkipIn(s, p, SpaceChars)
      r == SkipIn(s, colon + 1, SpaceChars)
      closing == SkipTo(s, r + 1, "}")
      semiA == SkipIn(s, closing + 1, SpaceChars)
      t == SkipIn(s, r, TypeChars)
      semiB == SkipIn(s, t, SpaceChars)
  IN IF ~IsAt(s, colon, ":") THEN NoMatch
     ELSE IF IsAt(s, r, "{") /\ IsAt(s, closing, "}") /\ IsAt(s, semiA, ";")
     THEN [found |-> TRUE, end |-> semiA + 1, g1 |-> g1, g2 |-> g2, g3 |-> g3,
           g4 |-> SubSeq(s, r, closing)]
     ELSE IF t > r /\ IsAt(s, semiB, ";")
     THEN [found |-> TRUE, end |-> semiB + 1, g1 |-> g1, g2 |-> g2, g3 |-> g3,
           g4 |-> SubSeq(s, r, t - 1)]
     ELSE NoMatch

\* objectTypeRegExp matched at position i: `(\w+)` or
\* `\[(\w+)\s*:\s*(\w+)\]`, then the member type.
MatchAt(s, i) ==
  LET w == SkipIn(s, i, WordChars)
      k == SkipIn(s, i + 1, WordChars)
      colon == SkipIn(s, k, SpaceChars)
      kt == SkipIn(s, colon + 1, SpaceChars)
      close == SkipIn(s, kt, WordChars)
  IN IF w > i THEN MatchMemberType(s, w, SubSeq(s, i, w - 1), "", "")
     ELSE IF /\ IsAt(s, i, "[") /\ k > i + 1 /\ IsAt(s, colon, ":")
             /\ close > kt /\ IsAt(s, close, "]")
     THEN MatchMemberType(s, close + 1, "",
                          SubSeq(s, i + 1, k - 1), SubSeq(s, kt, close - 1))
     ELSE NoMatch

\* objectTypeRegExp.FindAllStringSubmatch(s, -1): the leftmost matches, each
\* search resuming where the previous match ended
RECURSIVE FindAllFrom(_, _)
FindAllFrom(s, i) ==
  IF i > Len(s) THEN <<>>
  ELSE LET m == MatchAt(s, i)
       IN IF m.found THEN <<m>> \o FindAllFrom(s, m.end)
          ELSE FindAllFrom(s, i + 1)

FindAllStringSubmatch(s) == FindAllFrom(s, 1)

(***************************************************************************)
(* getTerraformType                                                        *)
(***************************************************************************)
NoType == [k |-> "None"]
TypeOk(ty) == [ok |-> TRUE, ty |-> ty]
TypeErr == [ok |-> FALSE, ty |-> NoType]

\* A union test that only sees a '|' outside of brackets and braces
ContainsUnionOutsideBrackets(s) ==
  \E i \in 1..Len(s) :
    /\ Char(s, i) = "|"
    /\ ~\E j \in 1..(i - 1) : Char(s, j) \in {"[", "{", "<"}

\* strings.Contains(tys, "|")
ContainsUnion(s) == Contains(s, "|")

\* A primitive switch that also takes the name "bool"
PrimitiveWithBool(s) ==
  CASE s \in {"boolean", "bool"} -> TBool
    [] s = "number" -> TNumber
    [] s = "string" -> TString
    [] s \in {"any", ""} -> TDynamic
    [] OTHER -> NoType

\* The switch over the primitive names; NoType stands for its default case
Primitive(s) ==
  CASE s = "boolean" -> TBool
    [] s = "number" -> TNumber
    [] s = "string" -> TString
    [] s \in {"any", ""} -> TDynamic
    [] OTHER -> NoType

RECURSIVE getTerraformType(_)
RECURSIVE ObjectMembers(_, _, _)

\* The loop over the matches of an object expression: an index signature is
\* an error, the other members are added to atys, a later key overwriting
ObjectMembers(matches, i, atys) ==
  IF i > Len(matches) THEN TypeOk(ObjectT(atys))
  ELSE LET match == matches[i]
           r == getTerraformType(match.g4)
       IN IF match.g2 # "" /\ match.g3 # "" THEN TypeErr
          ELSE IF ~r.ok THEN TypeErr
          ELSE ObjectMembers(matches, i + 1,
                 [key \in DOMAIN atys \cup {match.g1} |->
                    IF key = match.g1 THEN r.ty ELSE atys[key]])

getTerraformType(s) ==
  IF ContainsUnion(s) THEN TypeErr
  ELSE IF Primitive(s) # NoType THEN TypeOk(Primitive(s))
  ELSE IF HasSuffix(s, "[]")
  THEN LET r == getTerraformType(SubSeq(s, 1, Len(s) - 2))
       IN IF ~r.ok THEN TypeErr ELSE TypeOk(ListT(r.ty))
  ELSE IF HasPrefix(s, "[") /\ HasSuffix(s, "]")
  THEN LET strs == Split(SubSeq(s, 2, Len(s) - 1), ",")
           rs == [i \in DOMAIN strs |-> getTerraformType(TrimSpace(strs[i]))]
       IN IF \E i \in DOMAIN rs : ~rs[i].ok THEN TypeErr
          ELSE TypeOk(TupleT([i \in DOMAIN rs |-> rs[i].ty]))
  ELSE IF HasPrefix(s, "Set<") /\ HasSuffix(s, ">")
  THEN LET r == getTerraformType(SubSeq(s, 5, Len(s) - 1))
       IN IF ~r.ok THEN TypeErr ELSE TypeOk(SetT(r.ty))
  ELSE IF HasPrefix(s, "Map<") /\ HasSuffix(s, ">")
  THEN LET r == getTerraformType(SubSeq(s, 5, Len(s) - 1))
       IN IF ~r.ok THEN TypeErr ELSE TypeOk(MapT(r.ty))
  ELSE IF HasPrefix(s, "{") /\ HasSuffix(s, "}")
  THEN LET matches == FindAllStringSubmatch(s)
           match == matches[1]
           r == getTerraformType(match.g4)
       IN IF Len(matches) = 1 /\ match.g2 # "" /\ match.g3 # ""
          THEN IF match.g3 # "string" THEN TypeErr
               ELSE IF ~r.ok THEN TypeErr
               ELSE TypeOk(MapT(r.ty))
          ELSE ObjectMembers(matches, 1, <<>>)
  ELSE TypeOk(TDynamic)

(***************************************************************************)
(* The values and target types the coercion engine is applied to           *)
(***************************************************************************)
SeqsUpTo(S, n) == UNION {[1..m -> S] : m \in 0..n}

\* Types of elements, attributes and map values
InnerTypes ==
  {TBool, TNumber, TString, TDynamic, ListT(TNumber), ListT(TString)}

InnerValues(ty) ==
  CASE ty = TBool -> {BoolV(TRUE)}
    [] ty = TNumber -> {NumberV(Num(1, 1))}
    [] ty = TString -> {StringV("x")}
    [] ty = TDynamic -> {DynamicV(Null)}
    [] ty = ListT(TNumber) ->
         {ListV(TNumber, <<>>), ListV(TNumber, <<NumberV(Num(1, 1))>>)}
    [] ty = ListT(TString) ->
         {ListV(TString, <<>>), ListV(TString, <<StringV("x")>>)}

AllInnerValues == UNION {InnerValues(ty) : ty \in InnerTypes}

PrimitiveValues ==
  {BoolV(TRUE), BoolV(FALSE), StringV("x"), StringV("true"),
   NumberV(Num(0, 1)), NumberV(Num(1, 1)), NumberV(Num(200, 1)),
   NumberV(Num(1, 2)), NumberV(Num(3, 2)),
   DynamicV(Null), DynamicV(NumberV(Num(1, 1)))}

IsInjective(s) == \A i, j \in DOMAIN s : s[i] = s[j] => i = j

TupleValues ==
  {TupleV([i \in DOMAIN els |-> TypeOf(els[i])], els) :
     els \in SeqsUpTo(AllInnerValues, MaxLen)}

ListValues ==
  UNION {{ListV(e, els) : els \in SeqsUpTo(InnerValues(e), MaxLen)} :
           e \in InnerTypes}

SetValues ==
  UNION {{SetV(e, els) :
            els \in {s \in SeqsUpTo(InnerValues(e), MaxLen) : IsInjective(s)}} :
           e \in InnerTypes}

ObjectValues ==
  UNION {{ObjectV([n \in K |-> TypeOf(f[n])], f) : f \in [K -> AllInnerValues]} :
           K \in SUBSET Names}

MapValues ==
  UNION {UNION {{MapV(e, f) : f \in [K -> InnerValues(e)]} : K \in SUBSET Names} :
           e \in InnerTypes}

Values ==
  PrimitiveValues \cup TupleValues \cup ListValues \cup SetValues
    \cup ObjectValues \cup MapValues

Types ==
  {TBool, TNumber, TString, TDynamic}
    \cup {ListT(e) : e \in InnerTypes}
    \cup {SetT(e) : e \in InnerTypes}
    \cup {MapT(e) : e \in InnerTypes}
    \cup {TupleT(es) : es \in SeqsUpTo(InnerTypes, MaxLen)}
    \cup UNION {{ObjectT(ats) : ats \in [K -> InnerTypes]} : K \in SUBSET Names}

(***************************************************************************)
(* The type expression parser is idle while the coercion engine is checked *)
(***************************************************************************)
ParserIdle ==
  /\ tys = ""
  /\ form = "idle"
  /\ inner = <<>>
  /\ res = [called |-> FALSE, ok |-> FALSE, ty |-> NoType]
  /\ depth = 0

(***************************************************************************)
(* The callers of Convert                                                  *)
(***************************************************************************)
NotCalled == [called |-> FALSE, ok |-> FALSE, v |-> Null]
Called(r) == [called |-> TRUE, ok |-> r.ok, v |-> r.v]

\* The bridge between framework values and goja values is idle while the
\* coercion engine or the parser is checked.
NoValue == [k |-> "None"]

BridgeIdle ==
  /\ given = NoValue
  /\ native = NotCalled
  /\ implied = [called |-> FALSE, ok |-> FALSE, ty |-> NoType]
  /\ back = NotCalled

\* No script is loaded, no function is called and no request is served
\* while the packages above are checked on their own.
NotRun == [called |-> FALSE, ok |-> FALSE, crashed |-> FALSE]
NoFunction == [name |-> ""]
NoResponse ==
  [done |-> FALSE, by |-> "none", crashed |-> FALSE, error |-> FALSE,
   result |-> Null]

RegIdle ==
  /\ script = <<>>
  /\ meta = <<>>
  /\ funcs = <<>>
  /\ perr = NotRun

CallIdle ==
  /\ fn = NoFunction
  /\ resp = NoResponse

\* No provider is configured and nothing is fetched.
NotConfigured == [done |-> FALSE]
NoFetch == [at |-> "idle"]

RestIdle ==
  /\ parsed = {}
  /\ handed = NotConfigured
  /\ fetch = NoFetch

HostIdle ==
  /\ RegIdle
  /\ CallIdle
  /\ pc = <<>>
  /\ RestIdle

Init ==
  /\ val \in Values
  /\ typ \in Types
  /\ caller = "none"
  /\ out = NotCalled
  /\ ParserIdle
  /\ BridgeIdle
  /\ HostIdle

\* TerraformFunction.Run converts the result of Execute to the return type.
Run ==
  /\ caller = "none"
  /\ caller' = "Run"
  /\ out' = Called(Convert(val, typ))
  /\ UNCHANGED <<val, typ>>
  /\ UNCHANGED <<parseVars, bridgeVars, hostVars>>

\* DataSource.Read converts the result only when its type is not Equal to
\* the return type.
Read ==
  /\ caller = "none"
  /\ caller' = "Read"
  /\ out' = IF ~Equal(typ, TypeOf(val)) THEN Called(Convert(val, typ))
            ELSE NotCalled
  /\ UNCHANGED <<val, typ>>
  /\ UNCHANGED <<parseVars, bridgeVars, hostVars>>

Next == Run \/ Read

Spec == Init /\ [][Next]_vars

(***************************************************************************)
(* The type expressions getTerraformType is applied to: a written          *)
(* expression, then the expressions composed from it by the grammar's      *)
(* forms.  inner records the parts of the last composition with the        *)
(* result of parsing each part on its own.                                 *)
(***************************************************************************)
BaseExprs ==
  {"boolean", "bool", "number", "string", "any", "",
   "string | number", "string|number", "string[]", "Set<number>"}

\* Expressions written next to the current one in a tuple
TupleMates == {"boolean", "Set<number>", "[number, string]"}

Part(kind, key, keyType, r) ==
  [kind |-> kind, key |-> key, keyType |-> keyType, ok |-> r.ok, ty |-> r.ty]
Elem(r) == Part("elem", "", "", r)

\* Members written after the current one in an object expression
MemberMates ==
  {[kind |-> "named", key |-> "age", keyType |-> "", type |-> "number"],
   [kind |-> "named", key |-> "t", keyType |-> "", type |-> "[number, string]"],
   [kind |-> "index", key |-> "key", keyType |-> "string", type |-> "number"],
   [kind |-> "index", key |-> "key", keyType |-> "number", type |-> "string"]}

\* The text of a member, terminated by ';'
MemberText(m) ==
  IF m.kind = "index"
  THEN "[" \o m.key \o ": " \o m.keyType \o "]: " \o m.type \o ";"
  ELSE m.key \o ": " \o m.type \o ";"

\* The text of a member that is the last one and not followed by ';'
Unterminated(m) == SubSeq(MemberText(m), 1, Len(MemberText(m)) - 1)

MemberPart(m) == Part(m.kind, m.key, m.keyType, getTerraformType(m.type))

Parsed(r) == [called |-> TRUE, ok |-> r.ok, ty |-> r.ty]
NotParsed == [called |-> FALSE, ok |-> FALSE, ty |-> NoType]

ConverterIdle ==
  /\ val = Null
  /\ typ = NoType
  /\ caller = "idle"
  /\ out = NotCalled

ParseInit ==
  /\ tys \in BaseExprs
  /\ form = "written"
  /\ inner = <<>>
  /\ res = NotParsed
  /\ depth = 0
  /\ ConverterIdle
  /\ BridgeIdle
  /\ HostIdle

\* The composed expression is parsed
Compose(expr, kind, parts) ==
  /\ res.called
  /\ depth < MaxDepth
  /\ tys' = expr
  /\ form' = kind
  /\ inner' = parts
  /\ res' = Parsed(getTerraformType(expr))
  /\ depth' = depth + 1
  /\ UNCHANGED <<convVars, bridgeVars, hostVars>>

\* getTerraformType(tys) for the expression as written
ParsePlain ==
  /\ ~res.called
  /\ form' = "plain"
  /\ res' = Parsed(getTerraformType(tys))
  /\ UNCHANGED <<tys, inner, depth>>
  /\ UNCHANGED <<convVars, bridgeVars, hostVars>>

\* T[]
ParseArray == Compose(tys \o "[]", "array", <<Elem(res)>>)

\* Set<T>
ParseSet == Compose("Set<" \o tys \o ">", "set", <<Elem(res)>>)

\* Map<T>
ParseMap == Compose("Map<" \o tys \o ">", "map", <<Elem(res)>>)

\* [T], [T, U] and [U, T] for a written, non-empty T
ParseTuple ==
  /\ tys # ""
  /\ \/ Compose("[" \o tys \o "]", "tuple", <<Elem(res)>>)
     \/ \E u \in TupleMates :
          \/ Compose("[" \o tys \o ", " \o u \o "]", "tuple",
                     <<Elem(res), Elem(getTerraformType(u))>>)
          \/ Compose("[" \o u \o ", " \o tys \o "]", "tuple",
                     <<Elem(getTerraformType(u)), Elem(res)>>)

\* { name: T; } and { name: T; m } for a written, non-empty T and a member m,
\* and the same with the last member not followed by ';'
ParseObject ==
  LET first == [kind |-> "named", key |-> "name", keyType |-> "", type |-> tys]
  IN /\ tys # ""
     /\ \/ Compose("{ " \o MemberText(first) \o " }", "object",
                   <<Part("named", "name", "", res)>>)
        \/ Compose("{ " \o Unterminated(first) \o " }", "object",
                   <<Part("named", "name", "", res)>>)
        \/ \E m \in MemberMates :
             \/ Compose("{ " \o MemberText(first) \o " " \o MemberText(m) \o " }",
                        "object", <<Part("named", "name", "", res), MemberPart(m)>>)
             \/ Compose("{ " \o MemberText(first) \o " " \o Unterminated(m) \o " }",
                        "object", <<Part("named", "name", "", res), MemberPart(m)>>)

\* { [key: K]: T; } and { [key: K]: T } for a written, non-empty T and a key
\* type K
ParseIndexSignature ==
  \E kt \in {"string", "number"} :
    LET first == [kind |-> "index", key |-> "key", keyType |-> kt, type |-> tys]
    IN /\ tys # ""
       /\ \/ Compose("{ " \o MemberText(first) \o " }", "object",
                     <<Part("index", "key", kt, res)>>)
          \/ Compose("{ " \o Unterminated(first) \o " }", "object",
                     <<Part("index", "key", kt, res)>>)

ParseNext ==
  \/ ParsePlain
  \/ ParseArray
  \/ ParseSet
  \/ ParseMap
  \/ ParseTuple
  \/ ParseObject
  \/ ParseIndexSignature

ParseSpec == ParseInit /\ [][ParseNext]_vars

(***************************************************************************)
(* tfgoja: goja values, the Go values they export to, and FromTfValue      *)
(***************************************************************************)
\* goja.Value: numbers are valueInt or valueFloat; an object keeps its
\* properties in insertion order (keys) with their values (props).
JsNull == [k |-> "null"]
JsUndefined == [k |-> "undefined"]
JsBool(b) == [k |-> "bool", b |-> b]
JsInt(i) == [k |-> "int", i |-> i]
JsFloat(n) == [k |-> "float", n |-> n]
JsNaN == [k |-> "NaN"]
JsInfinity == [k |-> "Infinity"]
JsString(s) == [k |-> "string", s |-> s]
JsFunction == [k |-> "function"]
JsArray(els) == [k |-> "array", els |-> els]
JsObject(keys, props) == [k |-> "object", keys |-> keys, props |-> props]

\* big.Float.Int64 of a non-negative payload: the payload truncated, Exact
\* when nothing was cut off.
Int64AlwaysExact(n) == [i |-> n.num \div n.den, acc |-> Exact]
Int64(n) ==
  [i |-> n.num \div n.den, acc |-> IF IsInt(n) THEN Exact ELSE Below]

Float64RoundedDown(n) == [f |-> Num(n.num \div n.den, 1), acc |-> Below]
\* big.Float.Float64: the nearest float64 and the accuracy of the rounding
Float64(n) == [f |-> NearestFloat64(n), acc |-> Float64Accuracy(n)]

\* Runtime.ToValue of an int64 and of a float64: a float64 that holds an
\* integer is stored as an integer.
IntToValue(i) == JsInt(i)
FloatToValue(n) == IF IsInt(n) THEN JsInt(n.num \div n.den) ELSE JsFloat(n)

\* The orders in which a Go map with the given keys can be ranged over
KeyOrders(K) == {s \in [1..Cardinality(K) -> K] : IsInjective(s)}

\* FromTfValue(v, js); order is the order in which the attributes or
\* elements of v, when it is an object or a map, are ranged over.
RECURSIVE FromTfValue(_, _)

FromEachFirstOnly(els, order) ==
  IF Len(els) = 0 THEN Ok(JsArray(<<>>))
  ELSE IF ~FromTfValue(els[1], order).ok THEN Err
  ELSE Ok(JsArray(<<FromTfValue(els[1], order).v>>))
\* The loop of the Tuple, List and Set cases: every element converted by
\* FromTfValue, in order, the first failure ending the conversion.
FromEach(els, order) ==
  LET rs == [i \in DOMAIN els |-> FromTfValue(els[i], order)]
  IN IF \E i \in DOMAIN rs : ~rs[i].ok THEN Err
     ELSE Ok(JsArray([i \in DOMAIN rs |-> rs[i].v]))

RECURSIVE fromTfValueReflect(_, _)
fromTfValueReflect(v, order) ==
  CASE PlainTypeString(TypeOf(v)) = "Dynamic" -> fromTfValueReflect(v.v, order)
    [] PlainTypeString(TypeOf(v)) = "Bool" -> Ok(JsBool(v.b))
    [] PlainTypeString(TypeOf(v)) = "Number" ->
         IF Int64(v.n).acc = Exact THEN Ok(IntToValue(Int64(v.n).i))
         ELSE Ok(FloatToValue(Float64(v.n).f))
    [] PlainTypeString(TypeOf(v)) = "String" -> Ok(JsString(v.s))
    [] PlainTypeString(TypeOf(v)) = "Tuple" -> FromEach(v.els, order)
    [] PlainTypeString(TypeOf(v)) = "List" -> FromEach(v.els, order)
    [] PlainTypeString(TypeOf(v)) = "Set" -> FromEach(v.els, order)
    [] OTHER -> Err

fromTfValueObjectEmpty(v, order) == Ok(JsObject(<<>>, <<>>))
fromTfValueObject(v, order) ==
  LET attrs == IF IsObjectType(TypeOf(v)) THEN v.attrs ELSE v.els
      \* an attribute that is an object or map itself is ranged over in
      \* ascending order of its keys
      rs == [key \in DOMAIN attrs |->
               FromTfValue(attrs[key],
                 IF attrs[key].k = "Object" THEN SortedKeys(attrs[key].attrs)
                 ELSE IF attrs[key].k = "Map" THEN SortedKeys(attrs[key].els)
                 ELSE <<>>)]
  IN IF \E key \in DOMAIN rs : ~rs[key].ok THEN Err
     ELSE Ok(JsObject(order, [key \in DOMAIN rs |-> rs[key].v]))

FromTfValue(v, order) ==
  IF v.k = "Unknown" THEN Err
  ELSE IF v.k = "Null" \/ (v.k = "Dynamic" /\ v.v.k = "Null") THEN Ok(JsNull)
  ELSE IF IsObjectType(TypeOf(v)) \/ IsMapType(TypeOf(v))
    THEN fromTfValueObject(v, order)
  ELSE fromTfValueReflect(v, order)

\* Value.Export: the Go value a goja value exports to
GoNil == [go |-> "nil"]
GoFunc == [go |-> "func"]
GoBool(b) == [go |-> "bool", b |-> b]
GoInt64(i) == [go |-> "int64", n |-> Num(i, 1)]
GoFloat64(n) == [go |-> "float64", n |-> n]
GoNaN == [go |-> "NaN"]
GoInf == [go |-> "Inf"]
GoString(s) == [go |-> "string", s |-> s]
GoSlice(els) == [go |-> "slice", els |-> els]
GoMap(m) == [go |-> "map", m |-> m]

RECURSIVE Export(_)
Export(v) ==
  CASE v.k \in {"null", "undefined"} -> GoNil
    [] v.k = "bool" -> GoBool(v.b)
    [] v.k = "int" -> GoInt64(v.i)
    [] v.k = "float" -> GoFloat64(v.n)
    [] v.k = "NaN" -> GoNaN
    [] v.k = "Infinity" -> GoInf
    [] v.k = "string" -> GoString(v.s)
    [] v.k = "function" -> GoFunc
    [] v.k = "array" -> GoSlice([i \in DOMAIN v.els |-> Export(v.els[i])])
    [] v.k = "object" -> GoMap([key \in DOMAIN v.props |-> Export(v.props[key])])

(***************************************************************************)
(* Object.MarshalJSON: the text JSON.stringify gives                       *)
(***************************************************************************)
Present(text) == [present |-> TRUE, text |-> text]
Absent == [present |-> FALSE, text |-> ""]

\* The serialization of a value; undefined and functions have none.
RECURSIVE Stringify(_)
Stringify(v) ==
  CASE v.k \in {"undefined", "function"} -> Absent
    [] v.k \in {"null", "NaN", "Infinity"} -> Present("null")
    [] v.k = "bool" -> Present(IF v.b THEN "true" ELSE "false")
    [] v.k = "int" -> Present(ToString(v.i))
    [] v.k = "float" -> Present(NumberText(v.n))
    [] v.k = "string" -> Present(Quote(v.s))
    [] v.k = "array" ->
         \* an element without a serialization is written as null
         Present("[" \o JoinSeq([i \in DOMAIN v.els |->
                          IF Stringify(v.els[i]).present
                          THEN Stringify(v.els[i]).text ELSE "null"], ",") \o "]")
    [] v.k = "object" ->
         \* a property without a serialization is left out
         LET ks == SelectSeq(v.keys, LAMBDA key : Stringify(v.props[key]).present)
         IN Present("{" \o JoinSeq([i \in DOMAIN ks |->
                          Quote(ks[i]) \o ":" \o Stringify(v.props[ks[i]]).text],
                          ",") \o "}")

MarshalJSONAbsentAsEmpty(v) ==
  IF Stringify(v).present THEN Stringify(v).text ELSE ""
\* MarshalJSON writes null when the value has no serialization.
MarshalJSON(v) == IF Stringify(v).present THEN Stringify(v).text ELSE "null"

(***************************************************************************)
(* encoding/json Decoder.Token on the texts MarshalJSON writes             *)
(***************************************************************************)
DigitChars == {"0", "1", "2", "3", "4", "5", "6", "7", "8", "9", "."}

\* The token starting at or after position i, commas and colons skipped,
\* with the position after it.
Token(s, i) ==
  LET b == SkipIn(s, i, {",", ":"})
      c == Char(s, b)
      q == SkipTo(s, b + 1, "\"")
  IN IF b > Len(s) THEN [t |-> "EOF", next |-> b]
     ELSE IF c \in {"{", "}", "[", "]"} THEN [t |-> "Delim", d |-> c, next |-> b + 1]
     ELSE IF c = "\"" THEN [t |-> "string", s |-> SubSeq(s, b + 1, q - 1), next |-> q + 1]
     ELSE IF c = "t" THEN [t |-> "bool", b |-> TRUE, next |-> b + 4]
     ELSE IF c = "f" THEN [t |-> "bool", b |-> FALSE, next |-> b + 5]
     ELSE IF c = "n" THEN [t |-> "nil", next |-> b + 4]
     ELSE [t |-> "Number", text |-> SubSeq(s, b, SkipIn(s, b, DigitChars) - 1),
           next |-> SkipIn(s, b, DigitChars)]

\* (attr.Type, error) with the position the decoder has reached
Implied(ty, next) == [ok |-> TRUE, ty |-> ty, next |-> next]
ImpliedErr == [ok |-> FALSE, ty |-> TDynamic, next |-> 0]

NullTypeAsString == TString
NullType == TDynamic

RECURSIVE impliedTypeForTok(_, _)
RECURSIVE impliedObjectType(_, _, _)
RECURSIVE impliedTupleType(_, _, _)

impliedTypeForTok(tok, s) ==
  CASE tok.t = "nil" -> Implied(NullType, tok.next)
    [] tok.t = "bool" -> Implied(TBool, tok.next)
    [] tok.t = "Number" -> Implied(TNumber, tok.next)
    [] tok.t = "string" -> Implied(TString, tok.next)
    [] tok.t = "Delim" /\ tok.d = "{" -> impliedObjectType(s, tok.next, <<>>)
    [] tok.t = "Delim" /\ tok.d = "[" -> impliedTupleType(s, tok.next, <<>>)
    [] OTHER -> ImpliedErr

\* atys is the map filled so far; a repeated key overwrites its entry.
impliedObjectType(s, i, atys) ==
  LET tok == Token(s, i)
      aty == impliedTypeForTok(Token(s, tok.next), s)
  IN IF tok.t = "EOF" THEN ImpliedErr
     ELSE IF tok.t = "Delim"
     THEN IF tok.d # "}" THEN ImpliedErr ELSE Implied(ObjectT(atys), tok.next)
     ELSE IF tok.t # "string" THEN ImpliedErr
     ELSE IF Token(s, tok.next).t = "EOF" THEN ImpliedErr
     ELSE IF ~aty.ok THEN ImpliedErr
     ELSE impliedObjectType(s, aty.next,
            [key \in DOMAIN atys \cup {tok.s} |->
               IF key = tok.s THEN aty.ty ELSE atys[key]])

\* etys is the slice appended to so far.
impliedTupleType(s, i, etys) ==
  LET tok == Token(s, i)
      ety == impliedTypeForTok(tok, s)
  IN IF tok.t = "EOF" THEN ImpliedErr
     ELSE IF tok.t = "Delim" /\ tok.d = "]" THEN Implied(TupleT(etys), tok.next)
     ELSE IF ~ety.ok THEN ImpliedErr
     ELSE impliedTupleType(s, ety.next, Append(etys, ety.ty))

impliedType(s, i) ==
  IF Token(s, i).t = "EOF" THEN ImpliedErr ELSE impliedTypeForTok(Token(s, i), s)

\* JSONImpliedType(buf): the type, or an error
JSONImpliedType(buf) ==
  LET r == impliedType(buf, 1)
  IN IF ~r.ok THEN TypeErr
     ELSE IF r.next <= Len(buf) THEN TypeErr
     ELSE TypeOk(r.ty)

(***************************************************************************)
(* encoding/json Unmarshal of such a text into Go values                   *)
(***************************************************************************)
DigitValue(c) ==
  CASE c = "0" -> 0 [] c = "1" -> 1 [] c = "2" -> 2 [] c = "3" -> 3
    [] c = "4" -> 4 [] c = "5" -> 5 [] c = "6" -> 6 [] c = "7" -> 7
    [] c = "8" -> 8 [] c = "9" -> 9

\* The natural number written by the digits s[b..e]
RECURSIVE ParseNat(_, _, _)
ParseNat(s, b, e) ==
  IF e < b THEN 0 ELSE 10 * ParseNat(s, b, e - 1) + DigitValue(Char(s, e))

\* The payload of a number text: an integer, or an integer and .5
ParseNumber(text) ==
  LET dot == SkipTo(text, 1, ".")
  IN IF dot > Len(text) THEN Num(ParseNat(text, 1, Len(text)), 1)
     ELSE Num(2 * ParseNat(text, 1, dot - 1) + 1, 2)

\* The value at position i decoded into an interface{}, with the position
\* after it: numbers become float64, arrays slices, objects maps.
RECURSIVE Decode(_, _)
RECURSIVE DecodeMembers(_, _, _)
RECURSIVE DecodeElements(_, _, _)

Decode(s, i) ==
  LET tok == Token(s, i)
  IN CASE tok.t = "nil" -> [v |-> GoNil, next |-> tok.next]
       [] tok.t = "bool" -> [v |-> GoBool(tok.b), next |-> tok.next]
       [] tok.t = "Number" ->
            [v |-> GoFloat64(ParseNumber(tok.text)), next |-> tok.next]
       [] tok.t = "string" -> [v |-> GoString(tok.s), next |-> tok.next]
       [] tok.t = "Delim" /\ tok.d = "{" -> DecodeMembers(s, tok.next, <<>>)
       [] tok.t = "Delim" /\ tok.d = "[" -> DecodeElements(s, tok.next, <<>>)

DecodeMembers(s, i, m) ==
  LET tok == Token(s, i)
      r == Decode(s, tok.next)
  IN IF tok.t = "Delim" THEN [v |-> GoMap(m), next |-> tok.next]
     ELSE DecodeMembers(s, r.next,
            [key \in DOMAIN m \cup {tok.s} |->
               IF key = tok.s THEN r.v ELSE m[key]])

DecodeElements(s, i, els) ==
  LET tok == Token(s, i)
      r == Decode(s, i)
  IN IF tok.t = "Delim" /\ tok.d = "]" THEN [v |-> GoSlice(els), next |-> tok.next]
     ELSE DecodeElements(s, r.next, Append(els, r.v))

(***************************************************************************)
(* tfsdk.ValueFrom: a Go value reflected into a value of the given type    *)
(***************************************************************************)
\* A struct value: its fields by json/tfsdk tag
GoStruct(fields) == [go |-> "struct", fields |-> fields]

RECURSIVE ValueFrom(_, _)
ValueFrom(value, ty) ==
  CASE value.go = "bool" /\ IsBoolType(ty) -> Diag(BoolV(value.b), FALSE)
    [] value.go \in {"int64", "float64"} /\ IsNumberType(ty) ->
         Diag(NumberV(value.n), FALSE)
    [] value.go = "string" /\ IsStringType(ty) -> Diag(StringV(value.s), FALSE)
    [] value.go = "slice" /\ IsTupleType(ty) ->
         LET rs == [i \in DOMAIN value.els |->
                      IF i \in DOMAIN ty.es THEN ValueFrom(value.els[i], ty.es[i])
                      ELSE Diag(Unknown, TRUE)]
         IN IF Len(value.els) # Len(ty.es) \/ \E i \in DOMAIN rs : rs[i].hasError
            THEN Diag(Unknown, TRUE)
            ELSE NewTupleValue(ty.es, [i \in DOMAIN rs |-> rs[i].v])
    [] value.go = "struct" /\ IsObjectType(ty) ->
         LET rs == [key \in DOMAIN value.fields |->
                      IF key \in DOMAIN ty.ats
                      THEN ValueFrom(value.fields[key], ty.ats[key])
                      ELSE Diag(Unknown, TRUE)]
         IN IF DOMAIN value.fields # DOMAIN ty.ats
               \/ \E key \in DOMAIN rs : rs[key].hasError
            THEN Diag(Unknown, TRUE)
            ELSE NewObjectValue(ty.ats, [key \in DOMAIN rs |-> rs[key].v])
    \* a map needs a type with one element type; nil and functions have
    \* no reflection rule
    [] OTHER -> Diag(Unknown, TRUE)

(***************************************************************************)
(* ToTfValue                                                               *)
(***************************************************************************)
\* cases.Title(language.English, cases.Compact) of a lower-case key
Upper(c) ==
  CASE c = "a" -> "A" [] c = "b" -> "B" [] OTHER -> c

Title(key) ==
  IF key = "" THEN "" ELSE Upper(Char(key, 1)) \o SubSeq(key, 2, Len(key))

\* The struct dynamicstruct builds with one field per exported property,
\* set by json.Unmarshal from the decoded text: a property the text does
\* not hold keeps its exported (zero) value.  No struct can be built with a
\* field of the nil type or with two properties of one title.
BuildStruct(exported, decoded) ==
  IF \/ \E key \in DOMAIN exported : exported[key] = GoNil
     \/ \E k1, k2 \in DOMAIN exported : k1 # k2 /\ Title(k1) = Title(k2)
  THEN [ok |-> FALSE, v |-> GoNil]
  ELSE [ok |-> TRUE,
        v |-> GoStruct([key \in DOMAIN exported |->
                 IF key \in DOMAIN decoded THEN decoded[key]
                 ELSE exported[key]])]

ToTfValue(v) ==
  LET src == MarshalJSON(v)
      ty == JSONImpliedType(src)
      built == BuildStruct(Export(v).m, Decode(src, 1).v.m)
  IN IF v.k \in {"null", "undefined"} THEN Ok(DynamicV(Null))
     ELSE IF src = "null" THEN Ok(DynamicV(Null))
     ELSE IF ~ty.ok THEN Err
     ELSE IF IsObjectType(ty.ty)
     THEN IF ~built.ok THEN Err
          ELSE DiagnosticsToError(ValueFrom(built.v, ty.ty))
     ELSE DiagnosticsToError(ValueFrom(Export(v), ty.ty))

(***************************************************************************)
(* The values the bridge is applied to: framework values handed to         *)
(* FromTfValue, and goja values a script returns to ToTfValue              *)
(***************************************************************************)
BridgeElems ==
  {BoolV(TRUE), NumberV(Num(200, 1)), NumberV(Num(3, 2)), StringV("x")}

SameType(f) == \A x, y \in DOMAIN f : TypeOf(f[x]) = TypeOf(f[y])

ElemTypeOf(f) == IF DOMAIN f = {} THEN TString ELSE TypeOf(f[CHOOSE x \in DOMAIN f : TRUE])

\* A payload finer than a float64: 3/8
BridgeValues ==
  PrimitiveValues \cup {NumberV(Num(3, 8)), Unknown}
    \cup {TupleV([i \in DOMAIN els |-> TypeOf(els[i])], els) :
            els \in SeqsUpTo(BridgeElems, MaxLen)}
    \cup {ListV(ElemTypeOf(els), els) :
            els \in {s \in SeqsUpTo(BridgeElems, MaxLen) : SameType(s)}}
    \cup {SetV(ElemTypeOf(els), els) :
            els \in {s \in SeqsUpTo(BridgeElems, MaxLen) :
                       SameType(s) /\ IsInjective(s)}}
    \cup UNION {{ObjectV([n \in K |-> TypeOf(f[n])], f) : f \in [K -> BridgeElems]} :
                  K \in SUBSET Names}
    \cup UNION {{MapV(ElemTypeOf(f), f) : f \in {g \in [K -> BridgeElems] : SameType(g)}} :
                  K \in SUBSET Names}

\* Values found inside the arrays and objects a script returns
ScriptInner ==
  {JsNull, JsUndefined, JsBool(TRUE), JsInt(1), JsFloat(Num(3, 2)),
   JsString("x"), JsFunction, JsArray(<<>>), JsArray(<<JsInt(1)>>),
   JsObject(<<"a">>, [key \in {"a"} |-> JsString("x")])}

ScriptValues ==
  {JsNull, JsUndefined, JsBool(TRUE), JsBool(FALSE), JsInt(0), JsInt(12),
   JsFloat(Num(25, 2)), JsString(""), JsString("hello"), JsString("true"),
   JsFunction, JsNaN, JsInfinity}
    \cup {JsArray(els) : els \in SeqsUpTo(ScriptInner, MaxLen)}
    \cup UNION {UNION {{JsObject(order, props) : order \in KeyOrders(K)} :
                         props \in [K -> ScriptInner]} : K \in SUBSET Names}

\* The attribute names or keys of an object or map value, none otherwise
KeysOf(v) ==
  IF v.k = "Object" THEN DOMAIN v.attrs
  ELSE IF v.k = "Map" THEN DOMAIN v.els
  ELSE {}

BridgeInit ==
  /\ \/ given \in BridgeValues /\ native = NotCalled
     \/ given = NoValue /\ native \in {Called(Ok(v)) : v \in ScriptValues}
  /\ implied = NotParsed
  /\ back = NotCalled
  /\ ConverterIdle
  /\ ParserIdle
  /\ HostIdle

\* FromTfValue(given), the attributes ranged over in any order
FromTf ==
  /\ given # NoValue
  /\ ~native.called
  /\ \E order \in KeyOrders(KeysOf(given)) :
       native' = Called(FromTfValue(given, order))
  /\ UNCHANGED <<given, implied, back>>
  /\ UNCHANGED <<convVars, parseVars, hostVars>>

\* JSONImpliedType applied to the text the goja value marshals to
ImplyType ==
  /\ native.called /\ native.ok
  /\ ~implied.called
  /\ implied' = Parsed(JSONImpliedType(MarshalJSON(native.v)))
  /\ UNCHANGED <<given, native, back>>
  /\ UNCHANGED <<convVars, parseVars, hostVars>>

\* ToTfValue applied to the goja value; implied records the call of
\* JSONImpliedType that ToTfValue makes once it is past its null cases.
ToTf ==
  /\ native.called /\ native.ok
  /\ ~back.called
  /\ back' = Called(ToTfValue(native.v))
  /\ implied' = IF native.v.k \in {"null", "undefined"} THEN implied
                ELSE IF MarshalJSON(native.v) = "null" THEN implied
                ELSE Parsed(JSONImpliedType(MarshalJSON(native.v)))
  /\ UNCHANGED <<given, native>>
  /\ UNCHANGED <<convVars, parseVars, hostVars>>

BridgeNext == FromTf \/ ImplyType \/ ToTf

BridgeSpec == BridgeInit /\ [][BridgeNext]_vars

(***************************************************************************)
(* Properties of the coercion engine                                       *)
(***************************************************************************)
Containers == {"Tuple", "List", "Set", "Object", "Map"}

\* C1: whenever Convert(val, typ) returns without error, the type of the
\* returned value is structurally equal to typ (element types, attribute
\* types and tuple arity included).
C1_ReturnsTargetType ==
  (out.called /\ out.ok) => TypeOf(out.v) = typ

\* C2: for every type T, Dynamic included, and every value whose type
\* structurally equals T, Convert(v, T) succeeds and returns v itself.
C2_CoercionIdentity ==
  (out.called /\ TypeOf(val) = typ) => (out.ok /\ out.v = val)

\* C3: converting a Bool, Number, String, Tuple, List, Set, Object or Map
\* value to Dynamic always succeeds and returns a Dynamic value wrapping
\* the original value.
C3_AnyToDynamic ==
  (out.called /\ typ = TDynamic /\ val.k \in Kinds)
    => (out.ok /\ out.v = DynamicV(val))

\* C4: converting an Object value to an Object type through Convert fails
\* whenever the attribute-name sets differ; a value is returned only when
\* the names are the same, and then every attribute has the type the target
\* gives it, attributes of an already equal type being copied unchanged.
C4_ObjectNameSets ==
  (out.called /\ val.k = "Object" /\ typ.k = "Object")
    => /\ (DOMAIN typ.ats # DOMAIN val.ats) => ~out.ok
       /\ out.ok =>
            /\ DOMAIN typ.ats = DOMAIN val.ats
            /\ out.v.k = "Object"
            /\ DOMAIN out.v.attrs = DOMAIN val.attrs
            /\ \A key \in DOMAIN val.attrs :
                 /\ TypeOf(out.v.attrs[key]) = typ.ats[key]
                 /\ val.ats[key] = typ.ats[key]
                      => out.v.attrs[key] = val.attrs[key]

\* C5: converting a Tuple value to a List or Set succeeds only when all of
\* the tuple's element types are structurally identical, and the result is
\* then a List/Set of that common element type holding the same elements in
\* the same order; a tuple whose element types differ fails.
C5_TupleToListOrSet ==
  (out.called /\ val.k = "Tuple" /\ typ.k \in {"List", "Set"})
    => /\ (\E i, j \in DOMAIN val.es : val.es[i] # val.es[j]) => ~out.ok
       /\ out.ok =>
            /\ \A i, j \in DOMAIN val.es : val.es[i] = val.es[j]
            /\ out.v.k = typ.k
            /\ out.v.els = val.els
            /\ \A i \in DOMAIN val.es : out.v.e = val.es[i]

\* C5 witness: a two-element tuple of one element type became a Set.
C5_Witness ==
  /\ out.called /\ out.ok
  /\ val.k = "Tuple" /\ Len(val.els) = 2 /\ typ.k = "Set"
  /\ out.v.k = "Set" /\ out.v.els = val.els

\* The (source kind, target kind) pairs that have a coercion rule
ListedRule(a, b) ==
  \/ a = b
  \/ b = "Dynamic"
  \/ a = "Bool" /\ b \in {"Number", "String"}
  \/ a = "Number" /\ b \in {"Bool", "String"}
  \/ a = "Tuple" /\ b \in {"List", "Set"}
  \/ a = "List" /\ b = "Tuple"
  \/ a = "Set" /\ b \in {"List", "Tuple"}
  \/ a = "Object" /\ b = "Map"
  \/ a = "Map" /\ b = "Object"

\* C6 (as stated): Convert returns an error for every pair of source and
\* target type without a listed rule; in particular String to Bool or Number
\* fails, and Tuple, List, Set, Object or Map to String, Bool or Number fails.
C6_UnlistedPairsFail ==
  (out.called /\ ~ListedRule(val.k, typ.k)) => ~out.ok

\* C6 (amended): Convert returns an error for every pair of source and target
\* type without a listed rule, except that a Tuple, List, Set, Object or Map
\* value converted to String succeeds and yields a String value holding the
\* rendering of the value; String to Bool or Number fails and a container to
\* Bool or Number fails.
C6_UnlistedPairsFailExceptToString ==
  (out.called /\ ~ListedRule(val.k, typ.k))
    => IF val.k \in Containers /\ typ.k = "String"
       THEN out.ok /\ out.v.k = "String" /\ Len(out.v.s) >= 2
       ELSE ~out.ok

\* C6 witness: a String value was refused the Bool type.
C6_Witness ==
  out.called /\ val.k = "String" /\ typ.k = "Bool" /\ ~out.ok

(***************************************************************************)
(* Properties of the type expression parser                                *)
(***************************************************************************)
\* C7: getTerraformType returns an error, never a type, for every type
\* expression that contains a union '|', whether the union is the whole
\* expression or sits inside an object member, array, tuple, Set<> or Map<>.
C7_UnionsRejected ==
  (res.called /\ Contains(tys, "|")) => ~res.ok

\* C7 witness: a union inside an object member inside another form was
\* rejected.
C7_Witness ==
  /\ res.called /\ ~res.ok /\ depth = 2
  /\ Contains(tys, "|") /\ HasPrefix(tys, "Set<{ name: string | number; }")

\* C8: for every T that parses to t, "T[]" parses to List(t), "Set<T>" to
\* Set(t), "Map<T>" to Map(t), and "[T1, ..., Tn]" to the Tuple of exactly
\* the n parsed element types in the written order.
C8_CompositionRules ==
  (res.called /\ form \in {"array", "set", "map", "tuple"}
     /\ \A i \in DOMAIN inner : inner[i].ok)
    => /\ res.ok
       /\ res.ty = CASE form = "array" -> ListT(inner[1].ty)
                     [] form = "set" -> SetT(inner[1].ty)
                     [] form = "map" -> MapT(inner[1].ty)
                     [] form = "tuple" ->
                          TupleT([i \in DOMAIN inner |-> inner[i].ty])

\* C9 (as stated): "boolean" and "bool" parse to Bool, "number" to Number,
\* "string" to String, "any" and the empty string to Dynamic.
C9_PrimitiveNames ==
  (res.called /\ form = "plain")
    => /\ tys \in {"boolean", "bool"} => (res.ok /\ res.ty = TBool)
       /\ tys = "number" => (res.ok /\ res.ty = TNumber)
       /\ tys = "string" => (res.ok /\ res.ty = TString)
       /\ tys \in {"any", ""} => (res.ok /\ res.ty = TDynamic)

\* C9 (amended): "boolean" parses to Bool, "number" to Number, "string" to
\* String, "any" and the empty string to Dynamic; "bool" is not a primitive
\* name and parses to Dynamic as any unrecognised text does.
C9_PrimitiveNamesWithoutBool ==
  (res.called /\ form = "plain")
    => /\ tys = "boolean" => (res.ok /\ res.ty = TBool)
       /\ tys = "bool" => (res.ok /\ res.ty = TDynamic)
       /\ tys = "number" => (res.ok /\ res.ty = TNumber)
       /\ tys = "string" => (res.ok /\ res.ty = TString)
       /\ tys \in {"any", ""} => (res.ok /\ res.ty = TDynamic)

\* C9 witness: the name "bool" was parsed.
C9_Witness ==
  res.called /\ form = "plain" /\ tys = "bool" /\ res.ok

\* C10: an object expression parses to Map(valueType) exactly when its only
\* member is an index signature with key type string; an index signature
\* with another key type, or one written next to named members, is an error.
C10_IndexSignature ==
  (res.called /\ form = "object")
    => /\ (Len(inner) = 1 /\ inner[1].kind = "index"
             /\ inner[1].keyType = "string" /\ inner[1].ok)
            => (res.ok /\ res.ty = MapT(inner[1].ty))
       /\ (res.ok /\ res.ty.k = "Map")
            => (Len(inner) = 1 /\ inner[1].kind = "index"
                  /\ inner[1].keyType = "string")
       /\ (\E i \in DOMAIN inner :
             inner[i].kind = "index" /\ inner[i].keyType # "string")
            => ~res.ok
       /\ (\E i, j \in DOMAIN inner :
             inner[i].kind = "index" /\ inner[j].kind = "named")
            => ~res.ok

(***************************************************************************)
(* internal/javascript: loading a script that registers functions with $() *)
(***************************************************************************)
\* wsRegEx.ReplaceAllString(s, ""): every white space character removed
RECURSIVE removeWhitespaceFromString(_)
removeWhitespaceFromString(s) ==
  IF Len(s) = 0 THEN ""
  ELSE IF Char(s, 1) \in SpaceChars
  THEN removeWhitespaceFromString(SubSeq(s, 2, Len(s)))
  ELSE Char(s, 1) \o removeWhitespaceFromString(SubSeq(s, 2, Len(s)))

extractArgNamesUntrimmed(fnString) ==
  LET open == SkipTo(fnString, 1, "(")
      close == SkipTo(fnString, open + 1, ")")
  IN IF close > Len(fnString) THEN [ok |-> FALSE, names |-> <<>>]
     ELSE [ok |-> TRUE,
           names |-> SelectSeq(Split(SubSeq(fnString, open + 1, close - 1), ","),
                               LAMBDA arg : arg # "")]
\* extractArgNames: the first parenthesized group without ')' inside, split
\* at commas, each piece trimmed, the empty pieces dropped
extractArgNames(fnString) ==
  LET open == SkipTo(fnString, 1, "(")
      close == SkipTo(fnString, open + 1, ")")
      pieces == Split(SubSeq(fnString, open + 1, close - 1), ",")
  IN IF close > Len(fnString) THEN [ok |-> FALSE, names |-> <<>>]
     ELSE [ok |-> TRUE,
           names |-> SelectSeq([i \in DOMAIN pieces |-> TrimSpace(pieces[i])],
                               LAMBDA arg : arg # "")]

\* The name property of a function written as "function name(...) {"
FunctionName(fnString) ==
  TrimSpace(SubSeq(fnString, Len("function") + 1, SkipTo(fnString, 1, "(") - 1))

\* F applied to the value of e, computed once
Once(e, F(_)) == CHOOSE y \in {F(x) : x \in {e}} : TRUE

\* A documentation block: the lines between "/**" and "*/", and the source
\* line that follows the block
NoDoc == [k |-> "none"]
Doc(next, lines) == [k |-> "doc", next |-> next, lines |-> lines]

\* A statement $(function ...) of a script: the block above it, if any, and
\* the source text of the function
Statement(doc, fnString) == [doc |-> doc, fnString |-> fnString]

\* Group 2 of jsdocRegEx, `(?:\$\()?(.*)`: the line after the block, without
\* a "$(" it starts with
DocSignature(next) ==
  IF HasPrefix(next, "$(") THEN SubSeq(next, 3, Len(next)) ELSE next

\* jsdocBeginRegEx.ReplaceAllString(line, ""): `^\s?\*\s?` removed
jsdocBegin(line) ==
  LET star == IF IsAt(line, 2, "*") /\ Char(line, 1) \in SpaceChars THEN 2 ELSE 1
      rest == IF star + 1 <= Len(line) /\ Char(line, star + 1) \in SpaceChars
              THEN star + 2 ELSE star + 1
  IN IF IsAt(line, star, "*") THEN SubSeq(line, rest, Len(line)) ELSE line

\* regExFindAndDelete(re, s, putback): group 1 of the first match, trimmed,
\* and s with every match replaced by putback.  Without a match, match[1]
\* is read from a nil slice: the goroutine panics.
Found(g1, rest) == [panic |-> FALSE, g1 |-> TrimSpace(g1), rest |-> rest]
Panics == [panic |-> TRUE, g1 |-> "", rest |-> ""]

\* jsdocTagRegEx, `^@(\w+)`
FindTag(s) ==
  LET e == SkipIn(s, 2, WordChars)
  IN IF IsAt(s, 1, "@") /\ e > 2
     THEN Found(SubSeq(s, 2, e - 1), SubSeq(s, e, Len(s)))
     ELSE Panics

\* jsdocParamNameRegEx, `\}\s+(\w+)\s+\-`, matched at position i: the end
\* of the match, 0 without a match
ParamNameEnd(s, i) ==
  LET a == SkipIn(s, i + 1, SpaceChars)
      b == SkipIn(s, a, WordChars)
      c == SkipIn(s, b, SpaceChars)
  IN IF IsAt(s, i, "}") /\ a > i + 1 /\ b > a /\ c > b /\ IsAt(s, c, "-")
     THEN c ELSE 0

\* The position of the first match of jsdocParamNameRegEx from i on,
\* Len(s) + 1 when there is none
RECURSIVE ParamNameAt(_, _)
ParamNameAt(s, i) ==
  IF i > Len(s) \/ ParamNameEnd(s, i) # 0 THEN i ELSE ParamNameAt(s, i + 1)

\* s from i on with every match of jsdocParamNameRegEx replaced by "}"
RECURSIVE ReplaceParamName(_, _)
ReplaceParamName(s, i) ==
  Once(ParamNameAt(s, i),
       LAMBDA m : IF m > Len(s) THEN SubSeq(s, i, Len(s))
                  ELSE SubSeq(s, i, m - 1) \o "}"
                         \o ReplaceParamName(s, ParamNameEnd(s, m) + 1))

FindParamName(s) ==
  Once(ParamNameAt(s, 1),
       LAMBDA m :
         IF m > Len(s) THEN Panics
         ELSE Found(SubSeq(s, SkipIn(s, m + 1, SpaceChars),
                           SkipIn(s, SkipIn(s, m + 1, SpaceChars), WordChars) - 1),
                    ReplaceParamName(s, 1)))

\* The position of the last "}" of s down from i, 0 when there is none
RECURSIVE LastBrace(_, _)
LastBrace(s, i) ==
  IF i >= 1 /\ Char(s, i) # "}" THEN LastBrace(s, i - 1) ELSE i

\* jsdocDescriptionRegEx, `([^}]+)$`
FindDescription(s) ==
  Once(LastBrace(s, Len(s)),
       LAMBDA b : IF b = Len(s) THEN Panics
                  ELSE Found(SubSeq(s, b + 1, Len(s)), SubSeq(s, 1, b)))

\* jsdocTypeRegEx, `\{(.*)\}`
FindType(s) ==
  Once([open |-> SkipTo(s, 1, "{"), close |-> LastBrace(s, Len(s))],
       LAMBDA m : IF m.open > Len(s) \/ m.close < m.open THEN Panics
                  ELSE Found(SubSeq(s, m.open + 1, m.close - 1),
                             SubSeq(s, 1, m.open - 1)
                               \o SubSeq(s, m.close + 1, Len(s))))

\* The metadata parseJSDoc collects; returns stays nil without a @returns
NoReturns == [k |-> "nil"]
ReturnMetadata(ty, description) == [k |-> "returns", typ |-> ty, description |-> description]
Param(name, ty, description) ==
  [name |-> name, typ |-> ty, description |-> description]

Collected(buf, params, returns) ==
  [ok |-> TRUE, panic |-> FALSE, buf |-> buf, params |-> params, returns |-> returns]
DocErr == [ok |-> FALSE, panic |-> FALSE, buf |-> "", params |-> <<>>, returns |-> NoReturns]
DocPanic == [ok |-> FALSE, panic |-> TRUE, buf |-> "", params |-> <<>>, returns |-> NoReturns]

\* case "param"
paramTag(line, c) ==
  Once(FindParamName(line),
       LAMBDA n :
         IF n.panic THEN DocPanic
         ELSE Once(FindDescription(n.rest),
                   LAMBDA d :
                     IF d.panic THEN DocPanic
                     ELSE Once(FindType(d.rest),
                               LAMBDA t :
                                 IF t.panic THEN DocPanic
                                 ELSE Collected(c.buf,
                                        Append(c.params, Param(n.g1, t.g1, d.g1)),
                                        c.returns))))

\* case "returns"
returnsTag(line, c) ==
  Once(FindDescription(line),
       LAMBDA d :
         IF d.panic THEN DocPanic
         ELSE Once(FindType(d.rest),
                   LAMBDA t :
                     IF t.panic THEN DocPanic
                     ELSE Collected(c.buf, c.params, ReturnMetadata(t.g1, d.g1))))

\* The body of the loop of parseJSDoc for one line, c collected so far
parseLine(raw, c) ==
  Once(TrimSpace(jsdocBegin(raw)),
       LAMBDA line :
         IF line = "" THEN c
         ELSE IF ~HasPrefix(line, "@")
         THEN Collected(c.buf \o line \o "\n", c.params, c.returns)
         ELSE Once(FindTag(line),
                   LAMBDA tag :
                     IF tag.panic THEN DocPanic
                     ELSE IF tag.g1 = "param" THEN paramTag(tag.rest, c)
                     ELSE IF tag.g1 = "returns" THEN returnsTag(tag.rest, c)
                     ELSE DocErr))

RECURSIVE parseLines(_, _, _)
parseLines(lines, i, c) ==
  IF i > Len(lines) \/ ~c.ok THEN c
  ELSE Once(parseLine(lines[i], c), LAMBDA d : parseLines(lines, i + 1, d))

\* parseJSDoc(doc): the first line of the text is the summary, the rest
\* the description.
parseJSDoc(doc) ==
  Once(parseLines(doc.lines, 1, Collected("", <<>>, NoReturns)),
       LAMBDA c :
         IF ~c.ok THEN [ok |-> FALSE, panic |-> c.panic, md |-> NoDoc]
         ELSE LET nl == SkipTo(c.buf, 1, "\n")
              IN [ok |-> TRUE, panic |-> FALSE,
                  md |-> [summary |-> SubSeq(c.buf, 1, nl - 1),
                          description |-> SubSeq(c.buf, nl + 1, Len(c.buf)),
                          params |-> c.params,
                          returns |-> c.returns]])

\* parseScriptJSDoc: the metadata of every block, keyed by the hash of the
\* line that follows it; filled is the map filled so far.
RECURSIVE parseScriptJSDocFrom(_, _, _)
parseScriptJSDocFrom(src, i, filled) ==
  IF i > Len(src) THEN [ok |-> TRUE, panic |-> FALSE, res |-> filled]
  ELSE IF src[i].doc = NoDoc THEN parseScriptJSDocFrom(src, i + 1, filled)
  ELSE Once(parseJSDoc(src[i].doc),
            LAMBDA p :
              IF ~p.ok THEN [ok |-> FALSE, panic |-> p.panic, res |-> <<>>]
              ELSE Once(removeWhitespaceFromString(DocSignature(src[i].doc.next)),
                        LAMBDA fnHash :
                          parseScriptJSDocFrom(src, i + 1,
                            [h \in DOMAIN filled \cup {fnHash} |->
                               IF h = fnHash THEN p.md ELSE filled[h]])))

parseScriptJSDoc(src) == parseScriptJSDocFrom(src, 1, <<>>)

\* tfarg.AsTerraformParameter and AsTerraformReturn: tuples are refused,
\* every other type gives a parameter or return of that type.
AsTerraformParameter(ty) ==
  IF PlainTypeString(ty) = "Tuple" THEN TypeErr ELSE TypeOk(ty)
AsTerraformReturn(ty) ==
  IF PlainTypeString(ty) = "Tuple" THEN TypeErr ELSE TypeOk(ty)

FunctionErr == [ok |-> FALSE, panic |-> FALSE, f |-> NoFunction]
\* An index out of range or a nil pointer dereference
FunctionPanic == [ok |-> FALSE, panic |-> TRUE, f |-> NoFunction]

\* NewJavaScriptFunction(in): every argument type and the return type are
\* parsed by getTerraformType; the first failure is returned.
NewJavaScriptFunction(in) ==
  Once([atys |-> [i \in DOMAIN in.args |-> getTerraformType(in.args[i].jsType)],
        rty |-> getTerraformType(in.retJsType),
        in |-> in],
       LAMBDA t :
         IF t.in.name = "" THEN FunctionErr
         ELSE IF \E i \in DOMAIN t.in.args :
                   \/ t.in.args[i].name = ""
                   \/ ~t.atys[i].ok
                   \/ ~AsTerraformParameter(t.atys[i].ty).ok
         THEN FunctionErr
         ELSE IF ~t.rty.ok \/ ~AsTerraformReturn(t.rty.ty).ok THEN FunctionErr
         ELSE [ok |-> TRUE, panic |-> FALSE,
               f |-> [name |-> t.in.name, summary |-> t.in.summary,
                      description |-> t.in.description,
                      args |-> [i \in DOMAIN t.in.args |->
                                  [name |-> t.in.args[i].name,
                                   description |-> t.in.args[i].description,
                                   ty |-> t.atys[i].ty]],
                      ret |-> t.rty.ty]])

\* parseFunction(name, fn, fnStr): arguments default to "any" without
\* description, the return to "any"; the metadata found under the hash of
\* the first line of fnStr, if any, overrides them.  args[i] is written for
\* every documented parameter and metadata.returns is dereferenced.
parseFunction(name, fnStr, funcMetadata) ==
  Once([fnHash |-> removeWhitespaceFromString(Split(fnStr, "\n")[1]),
        argNames |-> extractArgNames(fnStr)],
       LAMBDA t :
         LET found == t.fnHash \in DOMAIN funcMetadata
             md == funcMetadata[t.fnHash]
             args == [i \in DOMAIN t.argNames.names |->
                        IF found /\ i \in DOMAIN md.params
                        THEN [name |-> md.params[i].name,
                              description |-> md.params[i].description,
                              jsType |-> md.params[i].typ]
                        ELSE [name |-> t.argNames.names[i], description |-> "",
                              jsType |-> "any"]]
         IN IF ~t.argNames.ok THEN FunctionErr
            ELSE IF found /\ Len(md.params) > Len(t.argNames.names)
            THEN FunctionPanic
            ELSE IF found /\ md.returns = NoReturns THEN FunctionPanic
            ELSE NewJavaScriptFunction(
                   [name |-> name,
                    summary |-> IF found THEN md.summary ELSE "",
                    description |-> IF found THEN md.description ELSE "",
                    args |-> args,
                    retJsType |-> IF found THEN md.returns.typ ELSE "any"]))

registerFnKeepFirst(stmt, registered, funcMetadata) ==
  Once([fnName |-> FunctionName(stmt.fnString), registered |-> registered],
       LAMBDA t :
         IF t.fnName = ""
         THEN [ok |-> FALSE, panic |-> FALSE, funcs |-> t.registered]
         ELSE Once(parseFunction(t.fnName, stmt.fnString, funcMetadata),
                   LAMBDA fnParsed :
                     IF ~fnParsed.ok
                     THEN [ok |-> FALSE, panic |-> fnParsed.panic,
                           funcs |-> t.registered]
                     ELSE [ok |-> TRUE, panic |-> FALSE,
                           funcs |-> [n \in DOMAIN t.registered \cup {t.fnName} |->
                                        IF n \in DOMAIN t.registered
                                        THEN t.registered[n] ELSE fnParsed.f]]))
\* The function $ applied to the function of a statement: registers it
\* under its name, or throws.
registerFn(stmt, registered, funcMetadata) ==
  Once([fnName |-> FunctionName(stmt.fnString), registered |-> registered],
       LAMBDA t :
         IF t.fnName = ""
         THEN [ok |-> FALSE, panic |-> FALSE, funcs |-> t.registered]
         ELSE Once(parseFunction(t.fnName, stmt.fnString, funcMetadata),
                   LAMBDA fnParsed :
                     IF ~fnParsed.ok
                     THEN [ok |-> FALSE, panic |-> fnParsed.panic,
                           funcs |-> t.registered]
                     ELSE [ok |-> TRUE, panic |-> FALSE,
                           funcs |-> [n \in DOMAIN t.registered \cup {t.fnName} |->
                                        IF n = t.fnName THEN fnParsed.f
                                        ELSE t.registered[n]]]))

\* vm.RunString(src): the statements run in order; an exception thrown by
\* $ is not caught and ends the script, a panic of the Go code under $ is
\* not recovered.
RECURSIVE RunString(_, _, _, _)
RunString(src, i, registered, funcMetadata) ==
  IF i > Len(src) THEN [ok |-> TRUE, panic |-> FALSE, funcs |-> registered]
  ELSE Once(registerFn(src[i], registered, funcMetadata),
            LAMBDA r : IF ~r.ok THEN r
                       ELSE RunString(src, i + 1, r.funcs, funcMetadata))

\* The metadata of a script merged into the metadata kept by the runtime
MergeMetadata(funcMetadata, metadata) ==
  [h \in DOMAIN funcMetadata \cup DOMAIN metadata |->
     IF h \in DOMAIN metadata THEN metadata[h] ELSE funcMetadata[h]]

(***************************************************************************)
(* The scripts loaded: up to MaxStatements statements, each registering    *)
(* one function.  name, params and kind describe the statement as it is    *)
(* written; the loader reads doc and fnString only.                        *)
(***************************************************************************)
FnText(name, params, body) ==
  "function " \o name \o "(" \o JoinSeq(params, ", ") \o ") {\n" \o body \o "\n}"

Written(kind, name, params, doc, body) ==
  [kind |-> kind, name |-> name, params |-> params, doc |-> doc,
   fnString |-> FnText(name, params, body)]

\* The block of examples/func/library.js above sum, and blocks like it
Block(summary, tags) == <<"", " * " \o summary, " *">> \o tags \o <<" ">>

Statements ==
  {Written("documented", "sum", <<"a", "b">>,
           Doc("$(function sum(a, b) {",
               Block("Adds two numbers together.",
                     <<" * @param {number} a - The first number.",
                       " * @param {number} b - The second number.",
                       " * @returns {number} The sum of a and b.">>)),
           "  return a + b;"),
   Written("undocumented", "id", <<"x">>, NoDoc, "  return x;"),
   Written("undocumented", "now", <<>>, NoDoc, "  return (1);"),
   \* an empty line between the block and the statement
   Written("unmatched", "pad", <<"s", "n">>,
           Doc("",
               Block("Pads a string.",
                     <<" * @param {string} s - The string.",
                       " * @param {number} n - The width.",
                       " * @returns {string} The padded string.">>)),
           "  return s;"),
   \* an indented statement
   Written("unmatched", "trim", <<"s">>,
           Doc("  $(function trim(s) {",
               Block("Trims a string.",
                     <<" * @param {string} s - The string.",
                       " * @returns {string} The trimmed string.">>)),
           "  return s.trim();"),
   Written("union", "bad", <<"v">>,
           Doc("$(function bad(v) {",
               Block("Takes either.",
                     <<" * @param {string | number} v - The value.",
                       " * @returns {string} The value.">>)),
           "  return v;"),
   Written("unknown-tag", "tag", <<"v">>,
           Doc("$(function tag(v) {",
               Block("Has an example.",
                     <<" * @param {string} v - The value.",
                       " * @example tag(1)",
                       " * @returns {string} The value.">>)),
           "  return v;"),
   \* a block without @returns
   Written("no-returns", "greet", <<"name">>,
           Doc("$(function greet(name) {",
               Block("Greets.", <<" * @param {string} name - The name.">>)),
           "  return name;"),
   \* the function of the README, templates/index.md.tmpl
   Written("readme", "string_includes", <<"s", "sub">>,
           Doc("$(function string_includes(s, sub) {",
               <<"", " * Check if a string includes a substring.", " * ",
                 " * This function checks if a given substring is part of a string.",
                 " * @param {string} s the string",
                 " * @param {string} sub the substring",
                 " * @returns {boolean} whether the string contains the substring or not",
                 " ">>),
           "  return s.includes(sub);")}

Scripts == UNION {[1..n -> Statements] : n \in 1..MaxStatements}

\* JavaScriptRuntime.Functions
Functions(registered) == {registered[n] : n \in DOMAIN registered}

RegInit ==
  /\ script \in Scripts
  /\ meta = <<>>
  /\ funcs = <<>>
  /\ perr = NotRun
  /\ CallIdle
  /\ pc = <<>>
  /\ RestIdle
  /\ ConverterIdle
  /\ ParserIdle
  /\ BridgeIdle

\* JavaScriptRuntime.Parse(src) on a runtime that holds funcMetadata and
\* registered: what it returns and what the runtime holds afterwards
ParseOf(src, funcMetadata, registered) ==
  Once(parseScriptJSDoc(src),
       LAMBDA metadata :
         IF ~metadata.ok
         THEN [ok |-> FALSE, panic |-> metadata.panic,
               meta |-> funcMetadata, funcs |-> registered]
         ELSE Once(MergeMetadata(funcMetadata, metadata.res),
                   LAMBDA merged :
                     Once(RunString(src, 1, registered, merged),
                          LAMBDA ran : [ok |-> ran.ok, panic |-> ran.panic,
                                        meta |-> merged, funcs |-> ran.funcs])))

ParseSource(src) ==
  LET r == ParseOf(src, meta, funcs)
  IN /\ ~perr.crashed
     /\ script' = src
     /\ meta' = r.meta
     /\ funcs' = r.funcs
     /\ perr' = [called |-> TRUE, ok |-> r.ok, crashed |-> r.panic]
     /\ UNCHANGED <<fn, resp, pc, restVars>>
     /\ UNCHANGED <<convVars, parseVars, bridgeVars>>

\* The first Parse of a runtime
Parse ==
  /\ ~perr.called
  /\ ParseSource(script)

RegNext == Parse

RegSpec == RegInit /\ [][RegNext]_vars

(***************************************************************************)
(* The same runtime parsing one source after another                       *)
(***************************************************************************)
Undocumented(name, params) ==
  Written("undocumented", name, params, NoDoc, "  return (1);")

Documented(name, params, ty) ==
  Written("documented", name, params,
          Doc("$(" \o SubSeq(FnText(name, params, ""), 1,
                              SkipTo(FnText(name, params, ""), 1, "\n") - 1),
              Block("Documented.",
                    [i \in DOMAIN params |->
                       " * @param {" \o ty \o "} " \o params[i] \o " - A value."]
                      \o <<" * @returns {" \o ty \o "} The result.">>)),
          "  return (1);")

Sources ==
  {<<Documented("sum", <<"a", "b">>, "number"), Undocumented("id", <<"x">>)>>,
   <<Undocumented("id", <<"x", "y">>)>>,
   <<Undocumented("sum", <<"a">>), Undocumented("id", <<"x">>)>>,
   <<Undocumented("id", <<"x", "y">>), Undocumented("now", <<>>),
     Undocumented("id", <<"z">>)>>,
   <<Documented("id", <<"x">>, "string")>>,
   <<Undocumented("sum", <<"a", "b">>)>>,
   <<Undocumented("now", <<>>),
     CHOOSE st \in Statements : st.name = "bad",
     Undocumented("id", <<"x", "y">>)>>}

ReparseInit ==
  /\ script \in Sources
  /\ meta = <<>>
  /\ funcs = <<>>
  /\ perr = NotRun
  /\ CallIdle
  /\ pc = <<>>
  /\ RestIdle
  /\ ConverterIdle
  /\ ParserIdle
  /\ BridgeIdle

\* A later Parse of the runtime, with any source
ParseAgain ==
  /\ perr.called
  /\ \E src \in Sources : ParseSource(src)

ReparseNext == Parse \/ ParseAgain

ReparseSpec == ReparseInit /\ [][ReparseNext]_vars

(***************************************************************************)
(* Calling a registered function: Execute, and the two handlers of the     *)
(* host that call it.  given holds the arguments of the request (a tuple   *)
(* or an object of values), native what the script does when it is called, *)
(* back what Execute returns and resp the response of the handler.         *)
(***************************************************************************)
\* The script the called functions are loaded from, and the functions the
\* runtime holds after Parse
CallScript ==
  <<Written("documented", "sum", <<"a", "b">>,
            Doc("$(function sum(a, b) {",
                Block("Adds two numbers together.",
                      <<" * @param {number} a - The first number.",
                        " * @param {number} b - The second number.",
                        " * @returns {number} The sum of a and b.">>)),
            "  return a + b;"),
    Written("undocumented", "id", <<"a">>, NoDoc, "  return a;"),
    Written("documented", "isEmpty", <<"a">>,
            Doc("$(function isEmpty(a) {",
                Block("Tells whether a string is empty.",
                      <<" * @param {string} a - The string.",
                        " * @returns {boolean} Whether it is empty.">>)),
            "  return a.length == 0;"),
    Written("documented", "words", <<"a">>,
            Doc("$(function words(a) {",
                Block("Splits a string.",
                      <<" * @param {string} a - The string.",
                        " * @returns {string[]} The words.">>)),
            "  return a.split(' ');")>>

CallFunctions ==
  Functions(RunString(CallScript, 1, <<>>, parseScriptJSDoc(CallScript).res).funcs)

\* What the script does when it is called: it throws, or it returns a value
Throws == [ok |-> FALSE, v |-> JsUndefined]
Returns(v) == [ok |-> TRUE, v |-> v]
ScriptOutcomes == {Throws} \cup {Returns(v) : v \in ScriptValues}

\* The callable of bindCallableToRuntime applied to args, the script doing
\* outcome
ExecuteReturnDefault(args, outcome) ==
  IF \E i \in DOMAIN args : ~FromTfValue(args[i], <<>>).ok THEN Err
  ELSE IF ~outcome.ok THEN Err
  ELSE IF ~ToTfValue(outcome.v).ok THEN Ok(DynamicV(Null))
  ELSE ToTfValue(outcome.v)

Execute(args, outcome) ==
  IF \E i \in DOMAIN args : ~FromTfValue(args[i], <<>>).ok THEN Err
  ELSE IF ~outcome.ok THEN Err
  ELSE ToTfValue(outcome.v)

\* What Execute leaves behind: the script is entered only when every
\* argument is marshalled.
Entered(args, outcome) ==
  IF \E i \in DOMAIN args : ~FromTfValue(args[i], <<>>).ok THEN NotCalled
  ELSE Called(outcome)

\* The responses of a handler
Failed(by) ==
  [done |-> TRUE, by |-> by, crashed |-> FALSE, error |-> TRUE, result |-> Null]
Succeeded(by, v) ==
  [done |-> TRUE, by |-> by, crashed |-> FALSE, error |-> FALSE, result |-> v]
\* The handler panics: the request gets no response.
Crashed(by) ==
  [done |-> TRUE, by |-> by, crashed |-> TRUE, error |-> FALSE, result |-> Null]

\* function.ArgumentsData.Get and the framework before it: Run is entered
\* with one known, non-null value of the parameter's type per parameter.
RunArguments(f, v) ==
  /\ v.k = "Tuple"
  /\ Len(v.els) = Len(f.args)
  /\ \A i \in DOMAIN v.els :
       /\ Equal(f.args[i].ty, TypeOf(v.els[i]))
       /\ v.els[i].k = "Dynamic" => v.els[i].v.k \notin {"Null", "Unknown"}

\* function.ResultData.Set refuses a value whose type is not the type of
\* the definition's return.
ResultSet(by, v, ty) ==
  IF Equal(ty, TypeOf(v)) THEN Succeeded(by, v) ELSE Failed(by)

\* TerraformFunction.Run, after Execute
RunResponse(f, r) ==
  IF ~r.ok THEN Failed("Run")
  ELSE IF ~Convert(r.v, f.ret).ok THEN Failed("Run")
  ELSE ResultSet("Run", Convert(r.v, f.ret).v, f.ret)

\* The arguments DataSource.Read binds from the inputs: by name from an
\* object, by position from a tuple.  bound is FALSE when the handler
\* returns a diagnostic instead, crash is TRUE when it indexes the
\* parameters out of range.
NoArgs == [bound |-> FALSE, crash |-> FALSE, args |-> <<>>]

BindObject(f, v) ==
  LET pnames == {f.args[i].name : i \in DOMAIN f.args}
      pos(n) == CHOOSE i \in DOMAIN f.args : f.args[i].name = n
  IN IF \E n \in DOMAIN v.attrs : n \notin pnames THEN NoArgs
     ELSE IF \E n \in DOMAIN v.attrs :
               ~Equal(f.args[pos(n)].ty, TypeOf(v.attrs[n])) THEN NoArgs
     ELSE IF \E i \in DOMAIN f.args : f.args[i].name \notin DOMAIN v.attrs
     THEN NoArgs
     ELSE [bound |-> TRUE, crash |-> FALSE,
           args |-> [i \in DOMAIN f.args |-> v.attrs[f.args[i].name]]]

BindTuple(f, v) ==
  LET n == IF Len(v.els) < Len(f.args) THEN Len(v.els) ELSE Len(f.args)
  IN IF \E i \in 1..n : ~Equal(f.args[i].ty, TypeOf(v.els[i])) THEN NoArgs
     ELSE IF Len(v.els) > Len(f.args)
     THEN [bound |-> FALSE, crash |-> TRUE, args |-> <<>>]
     ELSE IF Len(v.els) < Len(f.args) THEN NoArgs
     ELSE [bound |-> TRUE, crash |-> FALSE, args |-> v.els]

Bind(f, v) ==
  IF IsObjectType(TypeOf(v)) THEN BindObject(f, v)
  ELSE IF IsTupleType(TypeOf(v)) THEN BindTuple(f, v)
  ELSE NoArgs

\* The function is looked up by name first.
ReadArgs(f, v) == IF f = NoFunction THEN NoArgs ELSE Bind(f, v)

\* DataSource.Read, after Execute
ReadResponse(f, r) ==
  IF ~r.ok THEN Failed("Read")
  ELSE IF Equal(f.ret, TypeOf(r.v)) THEN Succeeded("Read", DynamicV(r.v))
  ELSE IF ~Convert(r.v, f.ret).ok THEN Failed("Read")
  ELSE Succeeded("Read", DynamicV(Convert(r.v, f.ret).v))

\* The values of a request
CallElems ==
  {BoolV(TRUE), NumberV(Num(2, 1)), StringV("x"), DynamicV(StringV("x")),
   DynamicV(ObjectV([n \in {"a"} |-> TString], [n \in {"a"} |-> StringV("x")])),
   DynamicV(Null)}

CallInputs ==
  {Unknown, StringV("x")}
    \cup {TupleV([i \in DOMAIN els |-> TypeOf(els[i])], els) :
            els \in SeqsUpTo(CallElems, MaxLen)}
    \cup UNION {{ObjectV([n \in K |-> TypeOf(f[n])], f) : f \in [K -> CallElems]} :
                  K \in SUBSET Names}

CallInit ==
  /\ fn \in CallFunctions \cup {NoFunction}
  /\ given \in CallInputs
  /\ native = NotCalled
  /\ back = NotCalled
  /\ resp = NoResponse
  /\ implied = NotParsed
  /\ RegIdle
  /\ pc = <<>>
  /\ RestIdle
  /\ ConverterIdle
  /\ ParserIdle

\* TerraformFunction.Run
FunctionRun ==
  /\ ~resp.done
  /\ fn # NoFunction
  /\ RunArguments(fn, given)
  /\ \E outcome \in ScriptOutcomes :
       /\ native' = Entered(given.els, outcome)
       /\ back' = Called(Execute(given.els, outcome))
       /\ resp' = RunResponse(fn, Execute(given.els, outcome))
  /\ UNCHANGED <<fn, given, implied, pc>>
  /\ UNCHANGED <<convVars, parseVars, regVars, restVars>>

\* DataSource.Read
DataSourceRead ==
  /\ ~resp.done
  /\ \/ /\ given.k = "Unknown"
        /\ resp' = Succeeded("Read", DynamicV(Unknown))
        /\ UNCHANGED <<native, back>>
     \/ /\ given.k # "Unknown"
        /\ ~ReadArgs(fn, given).bound
        /\ resp' = IF ReadArgs(fn, given).crash
                   THEN Crashed("Read") ELSE Failed("Read")
        /\ UNCHANGED <<native, back>>
     \/ /\ given.k # "Unknown"
        /\ ReadArgs(fn, given).bound
        /\ \E outcome \in ScriptOutcomes :
             LET args == ReadArgs(fn, given).args
             IN /\ native' = Entered(args, outcome)
                /\ back' = Called(Execute(args, outcome))
                /\ resp' = ReadResponse(fn, Execute(args, outcome))
  /\ UNCHANGED <<fn, given, implied, pc>>
  /\ UNCHANGED <<convVars, parseVars, regVars, restVars>>

CallNext == FunctionRun \/ DataSourceRead

CallSpec == CallInit /\ [][CallNext]_vars

(***************************************************************************)
(* The requests of the host against the one goja runtime of the provider.  *)
(* The plugin server answers every request on a goroutine of its own; pc   *)
(* holds, for the construction of the provider (0) and for every request,  *)
(* what it is and where it stands.                                         *)
(***************************************************************************)
Requests == 1..MaxRequests

\* The library found in the environment and in the configuration
LibraryPath == "lib/library.js"

\* filepath.Ext: the suffix beginning at the last dot of the last element
RECURSIVE ExtFrom(_, _)
ExtFrom(path, i) ==
  IF i < 1 \/ Char(path, i) = "/" THEN ""
  ELSE IF Char(path, i) = "." THEN SubSeq(path, i, Len(path))
  ELSE ExtFrom(path, i - 1)

Ext(path) == ExtFrom(path, Len(path))

TrimPrefix(s, prefix) ==
  IF HasPrefix(s, prefix) THEN SubSeq(s, Len(prefix) + 1, Len(s)) ELSE s

\* The runtimes of the provider, by key
Vms == {"js"}

At(kind, at) == [kind |-> kind, at |-> at]

\* The places where a goroutine executes script code in the runtime
InEngine(r) == pc[r].at \in {"RunString", "callable"}

EngineInit ==
  /\ pc \in [{0} \cup Requests -> {At("New", "start")} \cup
              {At(kind, "waiting") : kind \in {"Run", "Read", "Configure"}}]
  /\ pc[0].kind = "New"
  /\ \A r \in Requests : pc[r].kind # "New"
  /\ RegIdle
  /\ CallIdle
  /\ RestIdle
  /\ ConverterIdle
  /\ ParserIdle
  /\ BridgeIdle

EngineIdle ==
  UNCHANGED <<convVars, parseVars, bridgeVars, regVars, callVars, restVars>>

\* provider.New reads the library and hands it to the runtime of its
\* extension.
New ==
  /\ pc[0].at = "start"
  /\ pc' = [pc EXCEPT ![0].at =
             IF TrimPrefix(Ext(LibraryPath), ".") \in Vms
             THEN "RunString" ELSE "serving"]
  /\ EngineIdle

\* JavaScriptRuntime.Parse returns; the server starts when New has returned.
ParseReturns(r) ==
  /\ pc[r].at = "RunString"
  /\ pc' = [pc EXCEPT ![r].at = IF r = 0 THEN "serving" ELSE "done"]
  /\ EngineIdle

\* FuncProvider.Configure
Configure(r) ==
  /\ pc[0].at = "serving"
  /\ pc[r] = At("Configure", "waiting")
  /\ pc' = [pc EXCEPT ![r].at =
             IF Ext(LibraryPath) \in Vms THEN "RunString" ELSE "done"]
  /\ EngineIdle

\* TerraformFunction.Run and DataSource.Read up to Execute: the arguments
\* are read and bound, or the handler returns.
Accept(r) ==
  /\ pc[0].at = "serving"
  /\ pc[r].kind \in {"Run", "Read"}
  /\ pc[r].at = "waiting"
  /\ \E bound \in BOOLEAN :
       pc' = [pc EXCEPT ![r].at = IF bound THEN "FromTfValue" ELSE "done"]
  /\ EngineIdle

\* bindCallableToRuntime: the arguments are marshalled, then the script
\* function is entered.
EnterCallable(r) ==
  /\ pc[r].at = "FromTfValue"
  /\ \E marshalled \in BOOLEAN :
       pc' = [pc EXCEPT ![r].at = IF marshalled THEN "callable" ELSE "done"]
  /\ EngineIdle

\* The script function returns or throws.
LeaveCallable(r) ==
  /\ pc[r].at = "callable"
  /\ \E returned \in BOOLEAN :
       pc' = [pc EXCEPT ![r].at = IF returned THEN "ToTfValue" ELSE "done"]
  /\ EngineIdle

\* The result is marshalled back and the handler answers.
Answer(r) ==
  /\ pc[r].at = "ToTfValue"
  /\ pc' = [pc EXCEPT ![r].at = "done"]
  /\ EngineIdle

EngineNext ==
  \/ New
  \/ \E r \in {0} \cup Requests : ParseReturns(r)
  \/ \E r \in Requests :
       Configure(r) \/ Accept(r) \/ EnterCallable(r) \/ LeaveCallable(r) \/ Answer(r)

EngineSpec == EngineInit /\ [][EngineNext]_vars

(***************************************************************************)
(* internal/provider: the libraries the provider indexes when it is built  *)
(* and when it is configured                                               *)
(***************************************************************************)
\* The paths a library block resolves to, and the files behind them
ConfigPaths == {"lib/library.js", "lib/other.js", "lib/missing.js", "lib/notes.txt"}

\* os.ReadFile
Readable(path) == path # "lib/missing.js"

Content(path) ==
  IF path = "lib/library.js"
  THEN <<Documented("sum", <<"a", "b">>, "number"), Undocumented("id", <<"x">>)>>
  ELSE IF path = "lib/other.js" THEN <<Undocumented("now", <<>>)>>
  ELSE <<>>

\* The libraries named by the environment when the provider is built
EnvPaths == {<<>>, <<"lib/library.js">>}

Provider(done, meta0, funcs0) == [parsed |-> done, meta |-> meta0, funcs |-> funcs0]

\* The body of the loop over the paths, in New and in Configure, with the
\* key the runtime is looked up under: a path already parsed, an unreadable
\* file and a key without runtime are skipped; a library that is parsed
\* without error is recorded.
IndexLibrary(path, vmKey, p) ==
  IF path \in p.parsed THEN p
  ELSE IF ~Readable(path) THEN p
  ELSE IF vmKey \notin Vms THEN p
  ELSE Once(ParseOf(Content(path), p.meta, p.funcs),
            LAMBDA r : Provider(IF r.ok THEN p.parsed \cup {path} ELSE p.parsed,
                                r.meta, r.funcs))

\* provider.New: vmKey := strings.TrimPrefix(filepath.Ext(path), ".")
RECURSIVE NewLibraries(_, _, _)
NewLibraries(paths, i, p) ==
  IF i > Len(paths) THEN p
  ELSE Once(IndexLibrary(paths[i], TrimPrefix(Ext(paths[i]), "."), p),
            LAMBDA q : NewLibraries(paths, i + 1, q))

\* FuncProvider.Configure: vmKey := filepath.Ext(path)
RECURSIVE ConfigureLibraries(_, _, _)
ConfigureLibraries(paths, i, p) ==
  IF i > Len(paths) THEN p
  ELSE Once(IndexLibrary(paths[i], Ext(paths[i]), p),
            LAMBDA q : ConfigureLibraries(paths, i + 1, q))

ProviderInit ==
  /\ \E env \in EnvPaths :
       LET p == NewLibraries(env, 1, Provider({}, <<>>, <<>>))
       IN /\ parsed = p.parsed
          /\ meta = p.meta
          /\ funcs = p.funcs
  /\ handed = NotConfigured
  /\ fetch = NoFetch
  /\ script = <<>>
  /\ perr = NotRun
  /\ CallIdle
  /\ pc = <<>>
  /\ ConverterIdle
  /\ ParserIdle
  /\ BridgeIdle

\* FuncProvider.Configure with the paths of the library blocks: paths and
\* before record the request and the paths parsed before it, given is the
\* function map handed to the data sources.
ProviderConfigure ==
  /\ \E paths \in SeqsUpTo(ConfigPaths, MaxPaths) :
       LET p == ConfigureLibraries(paths, 1, Provider(parsed, meta, funcs))
       IN /\ parsed' = p.parsed
          /\ meta' = p.meta
          /\ funcs' = p.funcs
          /\ handed' = [done |-> TRUE, paths |-> paths, before |-> parsed,
                        funcs |-> p.funcs]
  /\ UNCHANGED <<script, perr, fn, resp, pc, fetch>>
  /\ UNCHANGED <<convVars, parseVars, bridgeVars>>

ProviderNext == ProviderConfigure

ProviderSpec == ProviderInit /\ [][ProviderNext]_vars

\* C24: splitting a tuple expression into elements respects nesting: a tuple
\* written from elements that parse has exactly these elements, in order,
\* also when an element is itself a tuple or an object.
C24_TupleSplitRespectsNesting ==
  (/\ res.called
   /\ form = "tuple"
   /\ \A i \in DOMAIN inner : inner[i].ok) =>
    /\ res.ok
    /\ res.ty = TupleT([i \in DOMAIN inner |-> inner[i].ty])

\* The keys of the named members written in the object expression
MemberKeys == {inner[i].key : i \in DOMAIN inner}
MemberType(key) ==
  inner[CHOOSE i \in DOMAIN inner :
          inner[i].key = key /\ \A j \in DOMAIN inner : inner[j].key = key => j <= i].ty

\* C25: every named member of an object expression becomes a field of the
\* Object, whether or not the last member is followed by ';', and a single
\* index signature with a string key gives the Map of its member type.
C25_MembersBecomeFields ==
  (/\ res.called
   /\ form = "object"
   /\ \A i \in DOMAIN inner : inner[i].ok) =>
    /\ (\A i \in DOMAIN inner : inner[i].kind = "named") =>
         /\ res.ok
         /\ res.ty = ObjectT([key \in MemberKeys |-> MemberType(key)])
    /\ (Len(inner) = 1 /\ inner[1].kind = "index" /\ inner[1].keyType = "string") =>
         /\ res.ok
         /\ res.ty = MapT(inner[1].ty)

\* C26: a Number converted to Bool is false only when it is zero: 0 gives
\* false, every other integer and every fraction away from zero (1/2, 3/2)
\* gives true.
C26_NumberToBool ==
  (out.called /\ val.k = "Number" /\ typ = TBool) =>
    /\ out.ok
    /\ out.v = BoolV(val.n.num # 0)

(***************************************************************************)
(* getter.Fetch: the download goroutine and the select that waits for it   *)
(***************************************************************************)
\* The capacity of ech
EchCap == 2

\* The sources of the libraries; the last one is no URL urlhelper.Parse takes
Urls == {"https://host/library.js", "https://host/other.js", "://"}

\* Fetch is entered as call number n with the source url while the
\* destinations of stored exist: existed tells whether os.Stat finds the
\* destination, urlOk whether the URL parses.  at is the position of Fetch,
\* g of the goroutine; ech counts the errors buffered in ech, sc tells
\* whether a signal is buffered in sc, done whether the derived context is
\* cancelled; get is the outcome of client.Get, chosen the case the select
\* has taken and ret what Fetch returned.
FetchEntered(n, url, stored) ==
  [n |-> n, url |-> url, stored |-> stored,
   at |-> "start", g |-> "none", existed |-> url \in stored, urlOk |-> url # "://",
   ech |-> 0, sc |-> FALSE, done |-> FALSE, get |-> "pending",
   chosen |-> "none", ret |-> "none"]

FetchInit ==
  /\ fetch \in {FetchEntered(1, url, stored) :
                  url \in Urls, stored \in SUBSET (Urls \ {"://"})}
  /\ parsed = {}
  /\ handed = NotConfigured
  /\ RegIdle
  /\ CallIdle
  /\ pc = <<>>
  /\ ConverterIdle
  /\ ParserIdle
  /\ BridgeIdle

FetchStep(next) ==
  /\ fetch' = next
  /\ UNCHANGED <<parsed, handed, script, meta, funcs, perr, fn, resp, pc>>
  /\ UNCHANGED <<convVars, parseVars, bridgeVars>>

\* urlhelper.Parse, the key of the destination and os.Stat
FetchStat ==
  /\ fetch.at = "start"
  /\ FetchStep(IF ~fetch.urlOk
               THEN [fetch EXCEPT !.at = "returned", !.ret = "error"]
               ELSE IF fetch.existed
               THEN [fetch EXCEPT !.at = "returned", !.ret = "dst"]
               ELSE [fetch EXCEPT !.at = "go"])

\* go func() { ... }()
FetchGo ==
  /\ fetch.at = "go"
  /\ FetchStep([fetch EXCEPT !.at = "notify", !.g = "get"])

\* signal.Notify(sc, os.Interrupt)
FetchNotify ==
  /\ fetch.at = "notify"
  /\ FetchStep([fetch EXCEPT !.at = "select"])

\* An interrupt is delivered to sc while it is registered
Interrupt ==
  /\ fetch.at \in {"select", "wait"}
  /\ fetch.chosen # "sc"
  /\ ~fetch.sc
  /\ FetchStep([fetch EXCEPT !.sc = TRUE])

\* client.Get returns
GetReturns ==
  /\ fetch.g = "get"
  /\ \E outcome \in {"ok", "fail"} :
       FetchStep([fetch EXCEPT !.get = outcome,
                               !.stored = IF outcome = "ok"
                                          THEN @ \cup {fetch.url} ELSE @,
                               !.g = IF outcome = "fail" THEN "send" ELSE "cancel"])

\* ech <- err
SendError ==
  /\ fetch.g = "send"
  /\ fetch.ech < EchCap
  /\ FetchStep([fetch EXCEPT !.ech = @ + 1, !.g = "cancel"])

\* defer cancel()
DeferredCancel ==
  /\ fetch.g = "cancel"
  /\ FetchStep([fetch EXCEPT !.done = TRUE, !.g = "wgdone"])

\* defer wg.Done()
DeferredDone ==
  /\ fetch.g = "wgdone"
  /\ FetchStep([fetch EXCEPT !.g = "exited"])

\* The select takes one of the cases that are ready
SelectSignal ==
  /\ fetch.at = "select"
  /\ fetch.sc
  /\ FetchStep([fetch EXCEPT !.sc = FALSE, !.done = TRUE,
                             !.chosen = "sc", !.at = "wait"])

SelectError ==
  /\ fetch.at = "select"
  /\ fetch.ech > 0
  /\ FetchStep([fetch EXCEPT !.ech = @ - 1, !.chosen = "ech", !.at = "wait"])

SelectDone ==
  /\ fetch.at = "select"
  /\ fetch.done
  /\ FetchStep([fetch EXCEPT !.chosen = "done", !.at = "wait"])

\* wg.Wait() and the return of the case taken
FetchReturn ==
  /\ fetch.at = "wait"
  /\ fetch.g = "exited"
  /\ FetchStep([fetch EXCEPT !.at = "returned",
                             !.ret = IF fetch.chosen = "done" THEN "dst" ELSE "error"])

\* The loop over the libraries calls Fetch for the next source
FetchAgain ==
  /\ fetch.at = "returned"
  /\ fetch.n < MaxFetches
  /\ \E url \in Urls : FetchStep(FetchEntered(fetch.n + 1, url, fetch.stored))

FetchNext ==
  \/ FetchAgain
  \/ FetchStat
  \/ FetchGo
  \/ FetchNotify
  \/ Interrupt
  \/ GetReturns
  \/ SendError
  \/ DeferredCancel
  \/ DeferredDone
  \/ SelectSignal
  \/ SelectError
  \/ SelectDone
  \/ FetchReturn

FetchSpec == FetchInit /\ [][FetchNext]_vars

(***************************************************************************)
(* Claims about the bridge between framework values and goja values        *)
(***************************************************************************)
\* The type the structure of a serialized goja value implies: inside an
\* array a value without serialization is written as null, inside an object
\* it is left out.
RECURSIVE TypeByRule(_)
TypeByRule(v) ==
  CASE v.k \in {"null", "undefined", "function", "NaN", "Infinity"} -> TDynamic
    [] v.k = "bool" -> TBool
    [] v.k \in {"int", "float"} -> TNumber
    [] v.k = "string" -> TString
    [] v.k = "array" -> TupleT([i \in DOMAIN v.els |-> TypeByRule(v.els[i])])
    [] v.k = "object" ->
         ObjectT([key \in {n \in DOMAIN v.props :
                             v.props[n].k \notin {"undefined", "function"}} |->
                    TypeByRule(v.props[key])])

\* A type that is, or holds, a List, Set or Map type
RECURSIVE HasCollection(_)
HasCollection(ty) ==
  CASE ty.k \in {"List", "Set", "Map"} -> TRUE
    [] ty.k = "Tuple" -> \E i \in DOMAIN ty.es : HasCollection(ty.es[i])
    [] ty.k = "Object" -> \E key \in DOMAIN ty.ats : HasCollection(ty.ats[key])
    [] OTHER -> FALSE

\* C11: JSONImpliedType maps a JSON boolean, number and string to Bool,
\* Number and String, null to Dynamic, an object to an Object type with one
\* attribute per key typed recursively, an array to a Tuple type with one
\* element type per element in order, and never yields List, Set or Map.
C11_ImpliedTypes ==
  implied.called =>
    /\ implied.ok
    /\ implied.ty = TypeByRule(native.v)
    /\ ~HasCollection(implied.ty)

C11_Witness ==
  /\ implied.called
  /\ native.v.k = "object"
  /\ implied.ty = ObjectT([key \in {"a", "b"} |->
                     IF key = "a" THEN TupleT(<<TNumber>>) ELSE TDynamic])

\* C12: ToTfValue returns a Dynamic null value and no error for null,
\* undefined and every value whose serialization is absent or null
\* (a function, NaN, Infinity), and makes no type inference for them.
C12_NullCases ==
  [][(back' # back
        /\ native.v.k \in {"null", "undefined", "function", "NaN", "Infinity"})
       => /\ back'.ok
          /\ back'.v = DynamicV(Null)
          /\ implied' = implied]_vars

C12_Witness ==
  /\ back.called /\ back.ok
  /\ native.v = JsFunction
  /\ ~implied.called

\* The number a goja number holds
NativeNumber(v) == IF v.k = "int" THEN Num(v.i, 1) ELSE v.n

\* |a - n| <= |c - n| for non-negative rationals
Distance(a, n, c) ==
  LET abs(x) == IF x < 0 THEN 0 - x ELSE x
  IN abs(a.num * n.den - n.num * a.den) * c.den
       <= abs(c.num * n.den - n.num * c.den) * a.den

C14_ContainersToNative ==
  native.called =>
    /\ given.k \in {"List", "Set", "Tuple"} =>
         /\ native.ok
         /\ native.v.k = "array"
         /\ Len(native.v.els) = Len(given.els)
         /\ \A i \in DOMAIN given.els :
              Ok(native.v.els[i]) = FromTfValue(given.els[i], <<>>)
    /\ given.k \in {"Object", "Map"} =>
         /\ native.ok
         /\ native.v.k = "object"
         /\ {native.v.keys[i] : i \in DOMAIN native.v.keys} = KeysOf(given)
         /\ Len(native.v.keys) = Cardinality(KeysOf(given))
         /\ DOMAIN native.v.props = KeysOf(given)

C14_Witness ==
  /\ native.called
  /\ given = SetV(TNumber, <<NumberV(Num(3, 2)), NumberV(Num(200, 1))>>)
  /\ native.v = JsArray(<<JsFloat(Num(3, 2)), JsInt(200)>>)

IsRun(i) ==
  /\ \A j \in DOMAIN script : script[j].kind \notin {"unknown-tag", "readme"}
  /\ \A j \in 1..(i - 1) : script[j].kind \notin {"union", "no-returns"}

\* The signature of a function without metadata
DefaultSignature(stmt) ==
  [name |-> stmt.name, summary |-> "", description |-> "",
   args |-> [i \in DOMAIN stmt.params |->
               [name |-> stmt.params[i], description |-> "", ty |-> TDynamic]],
   ret |-> TDynamic]

\* C17: a function without a block whose stripped signature line equals the
\* stripped first line of its source is registered all the same, with one
\* Dynamic argument without description per declared parameter, in order, a
\* Dynamic return and empty summary and description; the mismatch is no
\* error.
C17_UnmatchedDefaults ==
  perr.called =>
    /\ \A i \in DOMAIN script :
         (IsRun(i) /\ script[i].kind \in {"undocumented", "unmatched"}) =>
           /\ script[i].name \in DOMAIN funcs
           /\ funcs[script[i].name] = DefaultSignature(script[i])
    /\ (\A i \in DOMAIN script :
          script[i].kind \in {"documented", "undocumented", "unmatched"}) => perr.ok

C17_Witness ==
  /\ perr.called /\ perr.ok
  /\ \E i \in DOMAIN script : script[i].name = "trim"
  /\ \E i \in DOMAIN script : script[i].name = "pad"
  /\ funcs["pad"].args[2] = [name |-> "n", description |-> "", ty |-> TDynamic]

\* C18: when the registration of one function of a script fails with a hard
\* error, every other function the script registers, those after the failing
\* one included, is registered and returned by Functions().
C18_PartialSuccess ==
  (perr.called /\ \A j \in DOMAIN script :
                   script[j].kind \notin {"unknown-tag", "readme", "no-returns"}) =>
    \A i \in DOMAIN script :
      script[i].kind # "union" =>
        \E f \in Functions(funcs) : f.name = script[i].name

(***************************************************************************)
(* Claims about calling a function                                         *)
(***************************************************************************)
\* The arguments handed to Execute by the handler that answered
ArgsOf(v) ==
  IF v.k = "Tuple" THEN {v.els[i] : i \in DOMAIN v.els}
  ELSE {v.attrs[n] : n \in DOMAIN v.attrs}

ArgumentFails == \E a \in ArgsOf(given) : ~FromTfValue(a, <<>>).ok
ScriptFails == native.called /\ ~native.ok
ResultFails == native.called /\ native.ok /\ ~ToTfValue(native.v).ok
CoercionFails ==
  /\ back.ok
  /\ resp.by = "Read" => ~Equal(fn.ret, TypeOf(back.v))
  /\ ~Convert(back.v, fn.ret).ok

TupleTooLong(f, v) == IsTupleType(TypeOf(v)) /\ Len(v.els) > Len(f.args)

BadTuple(f, v) ==
  /\ IsTupleType(TypeOf(v))
  /\ \/ Len(v.els) # Len(f.args)
     \/ \E i \in DOMAIN v.els \cap DOMAIN f.args :
          ~Equal(f.args[i].ty, TypeOf(v.els[i]))

BadObject(f, v) ==
  /\ IsObjectType(TypeOf(v))
  /\ \/ DOMAIN v.attrs # {f.args[i].name : i \in DOMAIN f.args}
     \/ \E i \in DOMAIN f.args :
          /\ f.args[i].name \in DOMAIN v.attrs
          /\ ~Equal(f.args[i].ty, TypeOf(v.attrs[f.args[i].name]))

BadInputs == fn = NoFunction \/ BadTuple(fn, given) \/ BadObject(fn, given)

\* C23: Read executes the function only when every parameter has exactly one
\* value of its type; an undefined function, an unknown parameter name, a
\* type mismatch, a missing value or a tuple longer than the parameters is
\* answered with an error diagnostic, without execution and without result.
C23_ReadRejectsBadInputs ==
  (resp.done /\ resp.by = "Read" /\ given.k # "Unknown") =>
    /\ back.called => ~BadInputs
    /\ BadInputs =>
         (resp.error /\ ~resp.crashed /\ ~back.called /\ resp.result = Null)

(***************************************************************************)
(* Claims about the requests against the runtime                           *)
(***************************************************************************)
\* C20: in every interleaving of the host's requests, no two of them, and no
\* request together with the loading of a script, execute inside the same
\* goja runtime at the same time.
C20_EngineMutualExclusion ==
  \A r1, r2 \in DOMAIN pc : r1 # r2 => ~(InEngine(r1) /\ InEngine(r2))

(***************************************************************************)
(* Claims about parsing again, documentation blocks and the registry       *)
(***************************************************************************)
\* The last statement of src that registers name
LastNamed(src, name) ==
  src[CHOOSE i \in DOMAIN src :
        /\ src[i].name = name
        /\ \A j \in DOMAIN src : src[j].name = name => j <= i]

NamesOf(src) == {src[i].name : i \in DOMAIN src}

\* C21: Parse may be called again and again; after every call Functions()
\* holds at most one function per name, and after a call that ran its whole
\* source every name the source registers holds the function the source
\* registers last under it, every other name the function it held before.
C21_LastRegistrationWins ==
  [][perr'.called =>
       /\ \A f, g \in Functions(funcs') : f.name = g.name => f = g
       /\ \A n \in DOMAIN funcs' : funcs'[n].name = n
       /\ perr'.ok =>
            /\ DOMAIN funcs' = DOMAIN funcs \cup NamesOf(script')
            /\ \A n \in NamesOf(script') :
                 Len(funcs'[n].args) = Len(LastNamed(script', n).params)
            /\ \A n \in DOMAIN funcs \ NamesOf(script') : funcs'[n] = funcs[n]]_vars

C21_Witness ==
  /\ perr.called /\ perr.ok
  /\ script = <<Undocumented("id", <<"x", "y">>)>>
  /\ "sum" \in DOMAIN funcs
  /\ Len(funcs["id"].args) = 2

\* C27: a function whose matched block has no @returns is registered with
\* return type Dynamic; the missing tag never fails or crashes the load.
C27_NoReturnsIsDynamic ==
  perr.called =>
    \A i \in DOMAIN script :
      (IsRun(i) /\ script[i].kind = "no-returns") =>
        /\ ~perr.crashed
        /\ script[i].name \in DOMAIN funcs
        /\ funcs[script[i].name].ret = TDynamic

\* C28: a library documented in the form of the README,
\* "@param {type} name description", is parsed without error or crash and
\* its function has the documented argument names and types.
C28_ReadmeFormParses ==
  (perr.called /\ \A j \in DOMAIN script :
                   script[j].kind \in {"readme", "documented", "undocumented"}) =>
    /\ perr.ok /\ ~perr.crashed
    /\ \A i \in DOMAIN script :
         script[i].kind = "readme" =>
           /\ script[i].name \in DOMAIN funcs
           /\ [a \in DOMAIN funcs[script[i].name].args |->
                 funcs[script[i].name].args[a].name] = script[i].params
           /\ \A a \in DOMAIN funcs[script[i].name].args :
                 funcs[script[i].name].args[a].ty = TString

\* C29: a Parse that returns an error leaves the registry as it was before
\* the call, here empty: no state holds some but not all of the functions
\* of the source.
C29_AtomicRegistry ==
  (perr.called /\ ~perr.ok /\ ~perr.crashed) => Functions(funcs) = {}

(***************************************************************************)
(* Claims about the provider                                               *)
(***************************************************************************)
\* C22: after a Configure whose library block resolves to a readable .js
\* file that was not parsed before, the file is recorded as parsed and its
\* functions are in the function map handed to the data sources.
C22_ConfiguredLibraryIsParsed ==
  handed.done =>
    \A i \in DOMAIN handed.paths :
      (/\ Readable(handed.paths[i])
       /\ HasSuffix(handed.paths[i], ".js")
       /\ handed.paths[i] \notin handed.before) =>
        /\ handed.paths[i] \in parsed
        /\ NamesOf(Content(handed.paths[i])) \subseteq DOMAIN handed.funcs

(***************************************************************************)
(* Claims about Fetch                                                      *)
(***************************************************************************)
\* C30: in every interleaving of the download goroutine and the select,
\* Fetch returns an error when client.Get failed, and returns the
\* destination only when the download succeeded or the destination existed
\* before the call.
C30_FailedDownloadIsAnError ==
  fetch.at = "returned" =>
    /\ fetch.get = "fail" => fetch.ret = "error"
    /\ fetch.ret = "dst" => (fetch.get = "ok" \/ fetch.existed)
====
